---- MODULE Spec2Model ----
(***************************************************************************)
(* LibreDraw editing engine: feature store, reversible actions, bounded    *)
(* undo/redo history, the idle/draw/select mode machine, DrawMode and      *)
(* SelectMode event handlers and the self-intersection validator.          *)
(*                                                                         *)
(* Positions are pairs <<lng, lat>> of integers.  Array indices kept in    *)
(* the state (dragVertexIndex) are the 0-based JavaScript values; TLA+     *)
(* sequences are 1-based, so element i of a JavaScript array a is a[i+1].  *)
(***************************************************************************)
EXTENDS Integers, Sequences, FiniteSets, TLC

(***************************************************************************)
(* Bounds of the model                                                     *)
(***************************************************************************)
\* capacity N handed to the HistoryManager constructor (options.historyLimit)
HistoryLimit == 2
\* longest vertex list: DrawMode stops appending and SelectMode stops inserting
MaxVerts == 4
\* number of edits made in select mode: drags begun and deletions
MaxEdits == 2
\* pushes made on a bare HistoryManager: enough to overflow the stack
MaxPushes == HistoryLimit + 1

(***************************************************************************)
(* Program constants                                                       *)
(***************************************************************************)
HIT_THRESHOLD_PX == 10
CLOSE_THRESHOLD_PX == 10
MIN_VERTICES == 3
SELECT_MIN_VERTICES == 3
\* screen pixels per coordinate unit of the projection (getScreenPoint)
PxPerUnit == 10

ModeNames == {"idle", "draw", "select"}

\* the ids of the features that enter the editor, drawn (crypto.randomUUID) or imported
FeatureIds == {1}
\* the id of an imported feature that is not one randomUUID hands out
ImportedId == 2

\* positions the pointer visits
Corners == {<<0, 0>>, <<4, 0>>, <<4, 4>>, <<0, 4>>}
DrawPts == Corners
\* presses in select mode: a vertex, an edge midpoint, a point of the body
SelectPts == {<<0, 0>>, <<2, 0>>, <<3, 1>>}
\* a point of the body of both rings, away from their handles
BodyPts == {<<3, 1>>}
\* positions a drag moves the pointer to
MovePts == {<<5, 3>>}
Keys == {"Escape", "Delete", "Backspace"}

\* rings of the features handed to the store from outside
TriRing == <<<<0, 0>>, <<4, 0>>, <<4, 4>>, <<0, 0>>>>
SqRing == <<<<0, 0>>, <<4, 0>>, <<4, 4>>, <<0, 4>>, <<0, 0>>>>
InputRings == {TriRing, SqRing}

\* null / undefined feature
\* properties: {} of a feature, as a sequence of key/value pairs
EmptyProperties == <<>>

NoFeature == [id |-> 0, ring |-> <<>>, properties |-> EmptyProperties]

\* a polygon feature with one ring and no properties, as the tests build them
Polygon(id, ring) == [id |-> id, ring |-> ring, properties |-> EmptyProperties]

Min(a, b) == IF a < b THEN a ELSE b

(***************************************************************************)
(* validation/intersection.ts                                              *)
(***************************************************************************)
orientation(p, q, r) ==
    LET val == (q[2] - p[2]) * (r[1] - q[1]) - (q[1] - p[1]) * (r[2] - q[2])
    IN  IF val = 0 THEN 0 ELSE IF val > 0 THEN 1 ELSE 2

MaxOf(a, b) == IF a > b THEN a ELSE b

onSegment(p, q, r) ==
    /\ q[1] <= MaxOf(p[1], r[1])
    /\ q[1] >= Min(p[1], r[1])
    /\ q[2] <= MaxOf(p[2], r[2])
    /\ q[2] >= Min(p[2], r[2])

posEqual(a, b) == a[1] = b[1] /\ a[2] = b[2]

segmentsIntersect(p1, p2, p3, p4) ==
    IF posEqual(p1, p3) \/ posEqual(p1, p4) \/ posEqual(p2, p3) \/ posEqual(p2, p4)
    THEN FALSE
    ELSE LET o1 == orientation(p1, p2, p3)
             o2 == orientation(p1, p2, p4)
             o3 == orientation(p3, p4, p1)
             o4 == orientation(p3, p4, p2)
         IN  \/ (o1 # o2 /\ o3 # o4)
             \/ (o1 = 0 /\ onSegment(p1, p3, p2))
             \/ (o2 = 0 /\ onSegment(p1, p4, p2))
             \/ (o3 = 0 /\ onSegment(p3, p1, p4))
             \/ (o4 = 0 /\ onSegment(p3, p2, p4))

hasRingSelfIntersection(ring) ==
    LET n == Len(ring) - 1
    IN  IF n < 3 THEN FALSE
        ELSE \E i \in 0..(n - 1) : \E j \in (i + 2)..(n - 1) :
                /\ ~(i = 0 /\ j = n - 1)
                /\ segmentsIntersect(ring[i + 1], ring[i + 2], ring[j + 1], ring[j + 2])

\* the check that looks at no edge
wouldNewVertexNeverIntersect(vs, newVertex) == FALSE

wouldNewVertexCauseIntersection(vs, newVertex) ==
    IF Len(vs) < 2 THEN FALSE
    ELSE LET lastVertex == vs[Len(vs)]
         IN  \E i \in 0..(Len(vs) - 3) :
                segmentsIntersect(lastVertex, newVertex, vs[i + 1], vs[i + 2])

wouldClosingCauseIntersection(vs) ==
    IF Len(vs) < 3 THEN FALSE
    ELSE LET first == vs[1]
             last == vs[Len(vs)]
         IN  \E i \in 1..(Len(vs) - 3) :
                segmentsIntersect(last, first, vs[i + 1], vs[i + 2])

(***************************************************************************)
(* core/FeatureStore.ts: the Map of features, in insertion order           *)
(***************************************************************************)
has(s, id) == \E i \in 1..Len(s) : s[i].id = id

getById(s, id) ==
    IF has(s, id) THEN s[CHOOSE i \in 1..Len(s) : s[i].id = id] ELSE NoFeature

\* Map.set: an existing key keeps its place, a new key goes last
\* a Map.set that appends the entry also when the key is present
MapSetAppends(s, id, f) == Append(s, f)

MapSet(s, id, f) ==
    IF has(s, id)
    THEN [i \in 1..Len(s) |-> IF s[i].id = id THEN f ELSE s[i]]
    ELSE Append(s, f)

add(s, feature, uuid) ==
    LET id == IF feature.id # 0 THEN feature.id ELSE uuid
    IN  MapSet(s, id, [feature EXCEPT !.id = id])

update(s, id, feature) ==
    IF ~has(s, id) THEN s ELSE MapSet(s, id, [feature EXCEPT !.id = id])

\* a remove that leaves the store as it is
removeNone(s, id) == s

remove(s, id) == SelectSeq(s, LAMBDA f : f.id # id)

getAll(s) == s

cloneFeature(feature) ==
    [id |-> feature.id, ring |-> feature.ring, properties |-> feature.properties]

(***************************************************************************)
(* types/features.ts: CreateAction, UpdateAction, DeleteAction             *)
(***************************************************************************)
\* a Create action that applies and reverts as a Delete action does
CreateActionAsDelete(feature) == [type |-> "delete", feature |-> feature]

CreateAction(feature) == [type |-> "create", feature |-> feature]
UpdateAction(id, oldFeature, newFeature) ==
    [type |-> "update", id |-> id, oldFeature |-> oldFeature, newFeature |-> newFeature]
\* a Delete action that reverts as a Create action does
DeleteActionAsCreate(feature) == CreateAction(feature)

DeleteAction(feature) == [type |-> "delete", feature |-> feature]

apply(action, s) ==
    CASE action.type = "create" -> add(s, action.feature, 0)
      [] action.type = "update" -> update(s, action.id, action.newFeature)
      [] action.type = "delete" -> remove(s, action.feature.id)

\* revert with the Update case restoring the wrong snapshot
revertNewSnapshot(action, s) ==
    CASE action.type = "create" -> remove(s, action.feature.id)
      [] action.type = "update" -> update(s, action.id, action.newFeature)
      [] action.type = "delete" -> add(s, action.feature, 0)

revert(action, s) ==
    CASE action.type = "create" -> remove(s, action.feature.id)
      [] action.type = "update" -> update(s, action.id, action.oldFeature)
      [] action.type = "delete" -> add(s, action.feature, 0)

(***************************************************************************)
(* core/HistoryManager.ts, as functions of the two stacks                  *)
(***************************************************************************)
\* push that never evicts the oldest entry
pushNoEviction(undo, action) == Append(undo, action)

push(undo, action) ==
    LET pushed == Append(undo, action)
    IN  IF Len(pushed) > HistoryLimit THEN Tail(pushed) ELSE pushed

\* an undo that leaves the action on the undo stack
undoKeepsAction(undoS, redoS, s) ==
    IF Len(undoS) = 0
    THEN [ok |-> FALSE, undoStack |-> undoS, redoStack |-> redoS, store |-> s]
    ELSE LET action == undoS[Len(undoS)]
         IN  [ok |-> TRUE,
              undoStack |-> undoS,
              redoStack |-> Append(redoS, action),
              store |-> revert(action, s)]

undo(undoS, redoS, s) ==
    IF Len(undoS) = 0
    THEN [ok |-> FALSE, undoStack |-> undoS, redoStack |-> redoS, store |-> s]
    ELSE LET action == undoS[Len(undoS)]
         IN  [ok |-> TRUE,
              undoStack |-> SubSeq(undoS, 1, Len(undoS) - 1),
              redoStack |-> Append(redoS, action),
              store |-> revert(action, s)]

redo(undoS, redoS, s) ==
    IF Len(redoS) = 0
    THEN [ok |-> FALSE, undoStack |-> undoS, redoStack |-> redoS, store |-> s]
    ELSE LET action == redoS[Len(redoS)]
         IN  [ok |-> TRUE,
              undoStack |-> Append(undoS, action),
              redoStack |-> SubSeq(redoS, 1, Len(redoS) - 1),
              store |-> apply(action, s)]

\* a clear that leaves the stack as it is
clearNothing(stack) == stack

\* HistoryManager.clear, on each of the two stacks
clear(stack) == <<>>

(***************************************************************************)
(* Events handed to EventBus.emit                                          *)
(***************************************************************************)
Ev(type, ids, feature, oldFeature, m, previousMode) ==
    [type |-> type, selectedIds |-> ids, feature |-> feature,
     oldFeature |-> oldFeature, mode |-> m, previousMode |-> previousMode]
CreateEvent(feature) == Ev("create", <<>>, feature, NoFeature, "", "")
UpdateEvent(feature, oldFeature) == Ev("update", <<>>, feature, oldFeature, "", "")
DeleteEvent(feature) == Ev("delete", <<>>, feature, NoFeature, "", "")
SelectionChangeEvent(ids) == Ev("selectionchange", ids, NoFeature, NoFeature, "", "")
ModeChangeEvent(m, previousMode) == Ev("modechange", <<>>, NoFeature, NoFeature, m, previousMode)

(***************************************************************************)
(* Geometry helpers of SelectMode                                          *)
(***************************************************************************)
\* map.project as the test harness defines it: screen = PxPerUnit * lngLat
getScreenPoint(lngLat) == <<PxPerUnit * lngLat[1], PxPerUnit * lngLat[2]>>

\* a hole of a sparse array (an index that was never written)
Hole == <<>>
IsPosition(p) == Len(p) = 2
\* reading a coordinate of a hole raises a TypeError in the handler
Readable(ring) == \A i \in 1..Len(ring) : IsPosition(ring[i])

getVertices(feature) == SubSeq(feature.ring, 1, Len(feature.ring) - 1)

\* Points are passed in doubled coordinates so that a midpoint (a+b)/2 is an
\* exact integer pair; 4*dist^2 is compared with 4*threshold^2.
Dist4(p2, clickPoint) ==
    LET dx == 2 * clickPoint[1] - PxPerUnit * p2[1]
        dy == 2 * clickPoint[2] - PxPerUnit * p2[2]
    IN  dx * dx + dy * dy

findNearestPoint(points2, clickPoint) ==
    LET Hit(i) == Dist4(points2[i], clickPoint) <= 4 * HIT_THRESHOLD_PX * HIT_THRESHOLD_PX
        hits == {i \in 1..Len(points2) : Hit(i)}
    IN  IF hits = {} THEN -1
        ELSE (CHOOSE i \in hits :
                \A j \in hits :
                    \/ Dist4(points2[i], clickPoint) < Dist4(points2[j], clickPoint)
                    \/ (Dist4(points2[i], clickPoint) = Dist4(points2[j], clickPoint) /\ i <= j)) - 1

Doubled(points) == [i \in 1..Len(points) |-> <<2 * points[i][1], 2 * points[i][2]>>]

findNearestVertex(vs, clickPoint) == findNearestPoint(Doubled(vs), clickPoint)

\* midpoints in doubled coordinates: entry i is vertices[i] + vertices[next]
computeMidpoints(vs) ==
    [i \in 1..Len(vs) |->
        LET next == (i % Len(vs)) + 1
        IN  <<vs[i][1] + vs[next][1], vs[i][2] + vs[next][2]>>]

Halved(p2) == <<p2[1] \div 2, p2[2] \div 2>>
IsExactHalf(p2) == p2[1] % 2 = 0 /\ p2[2] % 2 = 0

\* ring[vertexIndex] = newPos on a copy of the ring; an index past the end
\* grows the array and leaves holes
SetAt(ring, idx, newPos) ==
    [i \in 1..MaxOf(Len(ring), idx + 1) |->
        IF i = idx + 1 THEN newPos
        ELSE IF i <= Len(ring) THEN ring[i] ELSE Hole]

\* a move that writes the one index and leaves the other end of the ring alone
moveVertexOneEnd(feature, vertexIndex, newPos) ==
    [feature EXCEPT !.ring = SetAt(feature.ring, vertexIndex, newPos)]

moveVertex(feature, vertexIndex, newPos) ==
    LET r1 == SetAt(feature.ring, vertexIndex, newPos)
        r2 == IF vertexIndex = 0 THEN SetAt(r1, Len(r1) - 1, newPos) ELSE r1
        r3 == IF vertexIndex = Len(r2) - 1 THEN SetAt(r2, 0, newPos) ELSE r2
    IN  [feature EXCEPT !.ring = r3]

\* the insertion that leaves the ring as it was
insertVertexNone(feature, index, pos) == feature

insertVertex(feature, insertIndex, pos) ==
    LET ring == feature.ring
    IN  [feature EXCEPT !.ring =
            SubSeq(ring, 1, insertIndex) \o <<pos>> \o SubSeq(ring, insertIndex + 1, Len(ring))]

removeVertex(feature, vertexIndex) ==
    LET vs == getVertices(feature)
        newVertices == SubSeq(vs, 1, vertexIndex) \o SubSeq(vs, vertexIndex + 2, Len(vs))
    IN  [feature EXCEPT !.ring = Append(newVertices, newVertices[1])]

\* @turf/boolean-point-in-polygon on the outer ring: boundary counts as inside
booleanPointInPolygon(pt, ring) ==
    LET Edges == 1..(Len(ring) - 1)
        OnEdge(i) == /\ orientation(ring[i], pt, ring[i + 1]) = 0
                     /\ onSegment(ring[i], pt, ring[i + 1])
        Crosses(i) ==
            LET a == ring[i]
                b == ring[i + 1]
                dy == b[2] - a[2]
                lhs == (pt[1] - a[1]) * dy
                rhs == (b[1] - a[1]) * (pt[2] - a[2])
            IN  /\ (a[2] > pt[2]) # (b[2] > pt[2])
                /\ IF dy > 0 THEN lhs < rhs ELSE lhs > rhs
    IN  \/ \E i \in Edges : OnEdge(i)
        \/ Cardinality({i \in Edges : Crosses(i)}) % 2 = 1

\* SelectMode.onPointerDown, lines 145-153: topmost feature under the click
hitFeature(s, lngLat) ==
    LET hits == {i \in 1..Len(s) : booleanPointInPolygon(lngLat, s[i].ring)}
    IN  IF hits = {} THEN NoFeature
        ELSE s[CHOOSE i \in hits : \A j \in hits : j <= i]

(***************************************************************************)
(* State                                                                   *)
(***************************************************************************)
VARIABLES
    currentModeName,    \* ModeManager.currentModeName
    drawIsActive,       \* DrawMode.isActive
    vertices,           \* DrawMode.vertices
    selectIsActive,     \* SelectMode.isActive
    selectedIds,        \* SelectMode.selectedIds, in insertion order
    dragging,           \* SelectMode.dragging
    dragVertexIndex,    \* SelectMode.dragVertexIndex
    dragStartFeature,   \* SelectMode.dragStartFeature
    features,           \* FeatureStore.features
    undoStack,          \* HistoryManager.undoStack
    redoStack,          \* HistoryManager.redoStack
    dragPan,            \* whether the host map's drag-panning is enabled
    uuidCount,          \* ids handed out by crypto.randomUUID so far
    events,             \* what the operation that ran last emitted and called, in order
    pushCount,          \* edits so far: pushes, and drags begun in select mode
    run,                \* history: the current run of pushes and the undo calls after it
    law,                \* the action and the store an inverse-law round trip started from
    gesture,            \* the gesture in progress or just completed, as it began
    destroyed,          \* LibreDraw.destroyed
    listeners,          \* EventBus.listeners: the handlers registered with on()
    renderManager       \* RenderManager: pending render, selected ids, what the map shows

modeVars == <<currentModeName, dragPan>>
drawVars == <<drawIsActive, vertices>>
selVars == <<selectIsActive, selectedIds, dragging, dragVertexIndex, dragStartFeature>>
histVars == <<undoStack, redoStack, pushCount, run, law>>
vars == <<currentModeName, drawIsActive, vertices, selectIsActive, selectedIds,
          dragging, dragVertexIndex, dragStartFeature, features, undoStack,
          redoStack, dragPan, uuidCount, events, pushCount, run, law, gesture,
          destroyed, listeners, renderManager>>

NoLaw == [phase |-> "none"]
NoGesture == [kind |-> "none"]

\* RenderManager after construction: no render is pending, nothing is selected and
\* the features source of the map is empty
NoRender == [pendingFeatures |-> <<>>, pendingRender |-> FALSE, selectedIds |-> {},
             rendered |-> <<>>]

EmptyRun == [log |-> <<>>, store |-> <<>>, undos |-> 0, oks |-> 0]

\* the run after HistoryManager.push(action) on a store that is now s
RunPush(r, action, s) ==
    [log |-> IF r.undos = 0 THEN Append(r.log, action) ELSE <<action>>,
     store |-> s, undos |-> 0, oks |-> 0]

\* the run after HistoryManager.undo returned ok
RunUndo(r, ok) ==
    [r EXCEPT !.undos = Min(r.undos + 1, HistoryLimit + 2),
              !.oks = IF ok THEN Min(r.oks + 1, HistoryLimit + 2) ELSE r.oks]

\* the run after HistoryManager.redo returned ok
RunRedo(r, ok) == IF ok THEN EmptyRun ELSE r

Init ==
    /\ currentModeName = "idle"
    /\ drawIsActive = FALSE
    /\ vertices = <<>>
    /\ selectIsActive = FALSE
    /\ selectedIds = <<>>
    /\ dragging = FALSE
    /\ dragVertexIndex = -1
    /\ dragStartFeature = NoFeature
    /\ features = <<>>
    /\ undoStack = <<>>
    /\ redoStack = <<>>
    /\ dragPan = TRUE
    /\ uuidCount = 0
    /\ events = <<>>
    /\ pushCount = 0
    /\ run = EmptyRun
    /\ law = NoLaw
    /\ gesture = NoGesture
    /\ destroyed = FALSE
    /\ listeners = {}
    /\ renderManager = NoRender

\* pushToHistory callback of both modes: HistoryManager.push
PushToHistory(action) ==
    /\ undoStack' = push(undoStack, action)
    /\ redoStack' = <<>>
    /\ UNCHANGED <<run, law>>

\* pushToHistory as SelectMode calls it when it deletes: the edit is counted
SelPush(action) ==
    /\ pushCount' = pushCount + 1
    /\ PushToHistory(action)

(***************************************************************************)
(* core/ModeManager.ts setMode, with the deactivate/activate of the modes  *)
(* and the mode-change callback LibreDraw registers                        *)
(***************************************************************************)
\* a call setMode makes on a mode or on the mode-change callback
ModeCall(type, m, previousMode) == Ev(type, <<>>, NoFeature, NoFeature, m, previousMode)

\* the calls in the wrong order: the target is activated before the previous mode
\* is deactivated
setModeTraceActivateFirst(name, previousMode, deactivateEvents) ==
    <<ModeCall("activate", name, "")>>
        \o <<ModeCall("deactivate", previousMode, "")>> \o deactivateEvents
        \o <<ModeCall("onModeChange", name, previousMode),
             ModeChangeEvent(name, previousMode)>>

\* what a real transition calls and emits, in order (lines 50-63)
setModeTrace(name, previousMode, deactivateEvents) ==
    <<ModeCall("deactivate", previousMode, "")>> \o deactivateEvents
        \o <<ModeCall("activate", name, ""),
             ModeCall("onModeChange", name, previousMode),
             ModeChangeEvent(name, previousMode)>>

\* a mode that is never deactivated
activeAfterNoDeactivate(isActive, modeName, name, previousMode) ==
    IF name = modeName THEN TRUE ELSE isActive

\* isActive of the mode modeName after deactivate() of the previous mode and
\* activate() of the target
activeAfter(isActive, modeName, name, previousMode) ==
    IF name = modeName THEN TRUE
    ELSE IF previousMode = modeName THEN FALSE
    ELSE isActive

\* a deactivate that keeps the selection and the drag session
selectDeactivateKeepsState ==
    UNCHANGED <<selectedIds, dragging, dragVertexIndex, dragStartFeature>>

\* SelectMode.deactivate: endDrag, then clear the selection
selectDeactivate ==
    /\ selectedIds' = <<>>
    /\ dragging' = FALSE
    /\ dragVertexIndex' = -1
    /\ dragStartFeature' = NoFeature

\* ModeManager.setMode
setMode(name) ==
    IF name = currentModeName
    THEN /\ events' = <<>>
         /\ UNCHANGED <<modeVars, drawVars, selVars>>
    ELSE LET previousMode == currentModeName
             panAfterDeactivate ==
                 IF previousMode = "select" /\ dragging THEN TRUE ELSE dragPan
             deactivateEvents ==
                 IF previousMode = "select" /\ Len(selectedIds) > 0
                 THEN <<SelectionChangeEvent(<<>>)>> ELSE <<>>
         IN  /\ currentModeName' = name
             /\ drawIsActive' = activeAfter(drawIsActive, "draw", name, previousMode)
             /\ vertices' = IF previousMode = "draw" \/ name = "draw" THEN <<>> ELSE vertices
             /\ selectIsActive' = activeAfter(selectIsActive, "select", name, previousMode)
             /\ IF previousMode = "select"
                THEN selectDeactivate
                ELSE UNCHANGED <<selectedIds, dragging, dragVertexIndex, dragStartFeature>>
             /\ dragPan' = CASE name = "draw" -> FALSE
                             [] name = "select" -> panAfterDeactivate
                             [] OTHER -> TRUE
             /\ events' = setModeTrace(name, previousMode, deactivateEvents)

\* LibreDraw.setMode
SetMode(name) ==
    /\ ~destroyed /\ UNCHANGED <<destroyed, listeners, renderManager>>
    /\ setMode(name)
    /\ UNCHANGED <<features, histVars, uuidCount>>
    /\ gesture' = NoGesture

(***************************************************************************)
(* modes/DrawMode.ts                                                       *)
(***************************************************************************)
\* the ring left open
CloseRingOpen(vs) == vs

\* finalizePolygon, lines 196-199: close the ring
CloseRing(vs) == Append(vs, vs[1])

DrawKeep(vs) ==
    /\ vertices' = vs
    /\ events' = <<>>
    /\ UNCHANGED <<features, histVars, uuidCount>>

\* finalizePolygon, entered with this.vertices = vs
finalizePolygon(vs) ==
    IF Len(vs) < MIN_VERTICES THEN DrawKeep(vs)
    ELSE LET ring == CloseRing(vs)
             feature == [id |-> uuidCount + 1, ring |-> ring,
                         properties |-> EmptyProperties]
             stored == getById(add(features, feature, 0), feature.id)
         IN  /\ uuidCount + 1 \in FeatureIds
             /\ uuidCount' = uuidCount + 1
             /\ features' = add(features, feature, 0)
             /\ PushToHistory(CreateAction(stored))
             /\ pushCount' = pushCount
             /\ events' = <<CreateEvent(stored)>>
             /\ vertices' = <<>>

\* the click is within CLOSE_THRESHOLD_PX of the first vertex
NearFirstVertex(vs, point) ==
    LET firstScreenPt == getScreenPoint(vs[1])
        dx == point[1] - firstScreenPt[1]
        dy == point[2] - firstScreenPt[2]
    IN  dx * dx + dy * dy <= CLOSE_THRESHOLD_PX * CLOSE_THRESHOLD_PX

\* a pointer-down that closes the ring on a closing click whatever the closing
\* edge crosses
DrawOnPointerDownClosesAnyway(lngLat) ==
    LET point == getScreenPoint(lngLat)
        newVertex == lngLat
    IN  IF ~drawIsActive THEN DrawKeep(vertices)
        ELSE IF Len(vertices) >= MIN_VERTICES /\ NearFirstVertex(vertices, point)
        THEN finalizePolygon(vertices)
        ELSE IF wouldNewVertexCauseIntersection(vertices, newVertex)
        THEN DrawKeep(vertices)
        ELSE /\ Len(vertices) < MaxVerts
             /\ uuidCount + 1 \in FeatureIds
             /\ DrawKeep(Append(vertices, newVertex))

DrawOnPointerDown(lngLat) ==
    LET point == getScreenPoint(lngLat)
        newVertex == lngLat
    IN  IF ~drawIsActive THEN DrawKeep(vertices)
        ELSE IF Len(vertices) >= MIN_VERTICES /\ NearFirstVertex(vertices, point)
        THEN IF wouldClosingCauseIntersection(vertices)
             THEN DrawKeep(vertices)
             ELSE finalizePolygon(vertices)
        ELSE IF wouldNewVertexCauseIntersection(vertices, newVertex)
        THEN DrawKeep(vertices)
        ELSE /\ Len(vertices) < MaxVerts
             /\ uuidCount + 1 \in FeatureIds
             /\ DrawKeep(Append(vertices, newVertex))

DrawOnDoubleClick ==
    LET popped == IF Len(vertices) > MIN_VERTICES
                  THEN SubSeq(vertices, 1, Len(vertices) - 1) ELSE vertices
    IN  IF ~drawIsActive THEN DrawKeep(vertices)
        ELSE IF Len(popped) >= MIN_VERTICES /\ ~wouldClosingCauseIntersection(popped)
        THEN finalizePolygon(popped)
        ELSE DrawKeep(popped)

DrawOnLongPress ==
    IF drawIsActive /\ Len(vertices) > 0
    THEN DrawKeep(SubSeq(vertices, 1, Len(vertices) - 1))
    ELSE DrawKeep(vertices)

\* a key handler that ignores Escape
DrawOnKeyDownIgnoresEscape(key) == DrawKeep(vertices)

DrawOnKeyDown(key) ==
    IF drawIsActive /\ key = "Escape"
    THEN DrawKeep(<<>>)
    ELSE DrawKeep(vertices)

(***************************************************************************)
(* modes/SelectMode.ts                                                     *)
(***************************************************************************)
getFirstSelectedId == IF Len(selectedIds) > 0 THEN selectedIds[1] ELSE 0

SelNoChange ==
    /\ events' = <<>>
    /\ UNCHANGED <<selectedIds, dragging, dragVertexIndex, dragStartFeature,
                   features, histVars, dragPan>>

startDrag(feature, vertexIndex) ==
    /\ dragging' = TRUE
    /\ dragVertexIndex' = vertexIndex
    /\ dragStartFeature' = cloneFeature(feature)
    /\ dragPan' = FALSE

endDrag ==
    /\ dragPan' = IF dragging THEN TRUE ELSE dragPan
    /\ dragging' = FALSE
    /\ dragVertexIndex' = -1
    /\ dragStartFeature' = NoFeature

\* the reverse scan of onPointerDown reads a ring with a hole before it finds a hit
ScanThrows(s, lngLat) ==
    \E i \in 1..Len(s) :
        /\ ~Readable(s[i].ring)
        /\ \A j \in (i + 1)..Len(s) :
              Readable(s[j].ring) /\ ~booleanPointInPolygon(lngLat, s[j].ring)

\* a click that adds the hit feature to the selection
reselectAdding(ids, hit) ==
    IF hit # NoFeature THEN Append(ids, hit.id) ELSE <<>>

\* onPointerDown, lines 155-167: the selection after a click that hit the feature
\* hit, or none
reselect(ids, hit) ==
    IF hit # NoFeature
    THEN IF \E i \in 1..Len(ids) : ids[i] = hit.id
         THEN SelectSeq(ids, LAMBDA id : id # hit.id)
         ELSE <<hit.id>>
    ELSE <<>>

\* onPointerDown, lines 141-170: standard polygon selection
SelectAt(lngLat) ==
    IF ScanThrows(features, lngLat) THEN SelNoChange
    ELSE LET hit == hitFeature(SelectSeq(features, LAMBDA f : Readable(f.ring)), lngLat)
             newIds == reselect(selectedIds, hit)
         IN  /\ selectedIds' = newIds
             /\ events' = <<SelectionChangeEvent(newIds)>>
             /\ UNCHANGED <<dragging, dragVertexIndex, dragStartFeature,
                            features, histVars, dragPan>>

\* onPointerDown, lines 108-139: what a press on the selected feature takes hold of
PressTarget(lngLat) ==
    LET point == getScreenPoint(lngLat)
        selectedId == getFirstSelectedId
        feature == getById(features, selectedId)
        vs == getVertices(feature)
    IN  IF ~selectIsActive \/ selectedId = 0 \/ feature = NoFeature THEN "none"
        ELSE IF ~Readable(vs) THEN "throws"
        ELSE IF findNearestVertex(vs, point) >= 0 THEN "vertex"
        ELSE IF findNearestPoint(computeMidpoints(vs), point) >= 0 THEN "midpoint"
        ELSE "none"

SelOnPointerDown(lngLat) ==
    LET point == getScreenPoint(lngLat)
        selectedId == getFirstSelectedId
        feature == getById(features, selectedId)
        vs == getVertices(feature)
        vertexIdx == findNearestVertex(vs, point)
        midpoints == computeMidpoints(vs)
        midIdx == findNearestPoint(midpoints, point)
        target == PressTarget(lngLat)
    IN  IF ~selectIsActive THEN SelNoChange
        ELSE IF target = "throws" THEN SelNoChange
        ELSE IF target = "vertex"
        THEN /\ pushCount' = pushCount + 1
             /\ startDrag(feature, vertexIdx)
             /\ events' = <<>>
             /\ UNCHANGED <<selectedIds, features, undoStack, redoStack, run, law>>
        ELSE IF target = "midpoint"
        THEN LET beforeInsert == cloneFeature(feature)
                 newFeature == insertVertex(feature, midIdx + 1, Halved(midpoints[midIdx + 1]))
             IN  /\ pushCount' = pushCount + 1
                 /\ Len(vs) < MaxVerts
                 /\ IsExactHalf(midpoints[midIdx + 1])
                 /\ features' = update(features, selectedId, newFeature)
                 /\ dragging' = TRUE
                 /\ dragVertexIndex' = midIdx + 1
                 /\ dragStartFeature' = beforeInsert
                 /\ dragPan' = FALSE
                 /\ events' = <<>>
                 /\ UNCHANGED <<selectedIds, undoStack, redoStack, run, law>>
        ELSE SelectAt(lngLat)

SelOnPointerMove(lngLat) ==
    LET selectedId == getFirstSelectedId
        feature == getById(features, selectedId)
        updatedFeature == moveVertex(feature, dragVertexIndex, lngLat)
    IN  IF ~selectIsActive \/ ~dragging THEN SelNoChange
        ELSE IF selectedId = 0 THEN SelNoChange
        ELSE IF feature = NoFeature THEN SelNoChange
        ELSE /\ features' = update(features, selectedId, updatedFeature)
             /\ events' = <<>>
             /\ UNCHANGED <<selectedIds, dragging, dragVertexIndex, dragStartFeature,
                            histVars, dragPan>>

SelOnPointerUp ==
    LET selectedId == getFirstSelectedId
        currentFeature == getById(features, selectedId)
    IN  IF ~selectIsActive \/ ~dragging THEN SelNoChange
        ELSE IF selectedId = 0 \/ dragStartFeature = NoFeature
        THEN /\ endDrag
             /\ events' = <<>>
             /\ UNCHANGED <<selectedIds, features, histVars>>
        ELSE IF currentFeature # NoFeature
        THEN /\ PushToHistory(UpdateAction(selectedId, dragStartFeature,
                                                 cloneFeature(currentFeature)))
             /\ pushCount' = pushCount
             /\ events' = <<UpdateEvent(currentFeature, dragStartFeature)>>
             /\ endDrag
             /\ UNCHANGED <<selectedIds, features>>
        ELSE /\ endDrag
             /\ events' = <<>>
             /\ UNCHANGED <<selectedIds, features, histVars>>

\* onDoubleClick lines 228-245 and onLongPress lines 262-277: delete a vertex
DeleteVertex(selectedId, feature, vertexIdx) ==
    LET oldFeature == cloneFeature(feature)
        updatedFeature == removeVertex(feature, vertexIdx)
    IN  /\ features' = update(features, selectedId, updatedFeature)
        /\ SelPush(UpdateAction(selectedId, oldFeature, cloneFeature(updatedFeature)))
        /\ events' = <<UpdateEvent(updatedFeature, oldFeature)>>
        /\ UNCHANGED <<selectedIds, dragging, dragVertexIndex, dragStartFeature, dragPan>>

SelOnDoubleClick(lngLat) ==
    LET point == getScreenPoint(lngLat)
        selectedId == getFirstSelectedId
        feature == getById(features, selectedId)
        vs == getVertices(feature)
        vertexIdx == findNearestVertex(vs, point)
    IN  IF ~selectIsActive THEN SelNoChange
        ELSE IF selectedId = 0 THEN SelNoChange
        ELSE IF feature = NoFeature THEN SelNoChange
        ELSE IF ~Readable(vs) THEN SelNoChange
        ELSE IF vertexIdx >= 0 /\ Len(vs) > SELECT_MIN_VERTICES
        THEN DeleteVertex(selectedId, feature, vertexIdx)
        ELSE SelNoChange

\* deleteSelected; the selection holds at most one id (SingleSelection)
deleteSelected ==
    LET id == selectedIds[1]
        feature == getById(features, id)
    IN  IF Len(selectedIds) = 0 THEN SelNoChange
        ELSE IF feature # NoFeature
        THEN /\ features' = remove(features, id)
             /\ SelPush(DeleteAction(feature))
             /\ selectedIds' = <<>>
             /\ events' = <<DeleteEvent(feature), SelectionChangeEvent(<<>>)>>
             /\ UNCHANGED <<dragging, dragVertexIndex, dragStartFeature, dragPan>>
        ELSE /\ selectedIds' = <<>>
             /\ events' = <<SelectionChangeEvent(<<>>)>>
             /\ UNCHANGED <<dragging, dragVertexIndex, dragStartFeature, dragPan,
                            features, histVars>>

SelOnLongPress(lngLat) ==
    LET point == getScreenPoint(lngLat)
        selectedId == getFirstSelectedId
        feature == getById(features, selectedId)
        vs == getVertices(feature)
        vertexIdx == findNearestVertex(vs, point)
    IN  IF ~selectIsActive THEN SelNoChange
        ELSE IF selectedId = 0 THEN SelNoChange
        ELSE IF feature = NoFeature THEN SelNoChange
        ELSE IF ~Readable(vs) THEN SelNoChange
        ELSE IF vertexIdx >= 0 /\ Len(vs) > SELECT_MIN_VERTICES
        THEN DeleteVertex(selectedId, feature, vertexIdx)
        ELSE deleteSelected

SelOnKeyDown(key) ==
    IF ~selectIsActive THEN SelNoChange
    ELSE IF key = "Delete" \/ key = "Backspace" THEN deleteSelected
    ELSE SelNoChange

\* refreshVertexHandles, run by LibreDraw.undo and LibreDraw.redo on the new store
refreshVertexHandles(newStore) ==
    LET selectedId == getFirstSelectedId
    IN  IF selectIsActive /\ selectedId # 0 /\ getById(newStore, selectedId) = NoFeature
        THEN /\ selectedIds' = SelectSeq(selectedIds, LAMBDA id : id # selectedId)
             /\ events' = <<SelectionChangeEvent(
                              SelectSeq(selectedIds, LAMBDA id : id # selectedId))>>
        ELSE /\ selectedIds' = selectedIds
             /\ events' = <<>>

(***************************************************************************)
(* Operations: input routed by InputHandler to the current mode, and the   *)
(* LibreDraw facade                                                        *)
(***************************************************************************)
DrawFrame == UNCHANGED <<modeVars, drawIsActive, selVars>>
SelFrame == UNCHANGED <<currentModeName, drawVars, selectIsActive, uuidCount>>
IdleEvent ==
    /\ events' = <<>>
    /\ UNCHANGED <<modeVars, drawVars, selVars, features, histVars, uuidCount>>

\* the gesture a press in select mode begins
GestureBegun(lngLat) ==
    IF currentModeName = "select" /\ PressTarget(lngLat) \in {"vertex", "midpoint"}
    THEN [kind |-> PressTarget(lngLat),
          id |-> getFirstSelectedId,
          before |-> getById(features, getFirstSelectedId),
          store |-> features,
          undo |-> undoStack,
          redo |-> redoStack,
          moves |-> 0]
    ELSE NoGesture

\* InputHandler's onPointerDown callback: the press goes to the active mode
onPointerDown(lngLat) ==
    /\ CASE currentModeName = "draw" -> DrawOnPointerDown(lngLat) /\ DrawFrame
         [] currentModeName = "select" -> SelOnPointerDown(lngLat) /\ SelFrame
         [] OTHER -> IdleEvent
    /\ ~destroyed /\ UNCHANGED <<destroyed, listeners>>
    /\ gesture' = GestureBegun(lngLat)
    /\ pushCount' <= MaxEdits

PointerDown(lngLat) == onPointerDown(lngLat) /\ UNCHANGED renderManager

PointerMove(lngLat) ==
    /\ CASE currentModeName = "draw" -> DrawKeep(vertices) /\ DrawFrame
         [] currentModeName = "select" -> SelOnPointerMove(lngLat) /\ SelFrame
         [] OTHER -> IdleEvent
    /\ ~destroyed /\ UNCHANGED <<destroyed, listeners, renderManager>>
    /\ gesture' = IF gesture.kind \in {"vertex", "midpoint"}
                  THEN [gesture EXCEPT !.moves = 1] ELSE NoGesture

PointerUp ==
    /\ CASE currentModeName = "draw" -> DrawKeep(vertices) /\ DrawFrame
         [] currentModeName = "select" -> SelOnPointerUp /\ SelFrame
         [] OTHER -> IdleEvent
    /\ ~destroyed /\ UNCHANGED <<destroyed, listeners, renderManager>>
    /\ gesture' = CASE gesture.kind = "vertex" -> [gesture EXCEPT !.kind = "vertexReleased"]
                    [] gesture.kind = "midpoint" -> [gesture EXCEPT !.kind = "midpointReleased"]
                    [] OTHER -> NoGesture

DoubleClick(lngLat) ==
    /\ CASE currentModeName = "draw" -> DrawOnDoubleClick /\ DrawFrame
         [] currentModeName = "select" -> SelOnDoubleClick(lngLat) /\ SelFrame
         [] OTHER -> IdleEvent
    /\ ~destroyed /\ UNCHANGED <<destroyed, listeners, renderManager>>
    /\ gesture' = NoGesture
    /\ pushCount' <= MaxEdits

\* a long-press or a key-down in select mode with a feature selected, or in draw
\* mode, with the vertex list it found
Discrete(kind, target, key) ==
    IF currentModeName = "select" /\ getById(features, getFirstSelectedId) # NoFeature
    THEN [kind |-> kind,
          target |-> target,
          key |-> key,
          id |-> getFirstSelectedId,
          before |-> getById(features, getFirstSelectedId)]
    ELSE IF currentModeName = "draw"
    THEN [kind |-> kind,
          target |-> target,
          key |-> key,
          id |-> 0,
          before |-> NoFeature,
          vertices |-> vertices]
    ELSE NoGesture

LongPress(lngLat) ==
    /\ CASE currentModeName = "draw" -> DrawOnLongPress /\ DrawFrame
         [] currentModeName = "select" -> SelOnLongPress(lngLat) /\ SelFrame
         [] OTHER -> IdleEvent
    /\ ~destroyed /\ UNCHANGED <<destroyed, listeners, renderManager>>
    /\ gesture' = Discrete("longPress", PressTarget(lngLat), "")
    /\ pushCount' <= MaxEdits

KeyDown(key) ==
    /\ CASE currentModeName = "draw" -> DrawOnKeyDown(key) /\ DrawFrame
         [] currentModeName = "select" -> SelOnKeyDown(key) /\ SelFrame
         [] OTHER -> IdleEvent
    /\ ~destroyed /\ UNCHANGED <<destroyed, listeners, renderManager>>
    /\ gesture' = Discrete("key", "", key)
    /\ pushCount' <= MaxEdits

\* LibreDraw.undo
Undo ==
    LET r == undo(undoStack, redoStack, features)
    IN  /\ undoStack' = r.undoStack
        /\ redoStack' = r.redoStack
        /\ features' = r.store
        /\ run' = run
        /\ IF r.ok THEN refreshVertexHandles(r.store)
           ELSE selectedIds' = selectedIds /\ events' = <<>>
        /\ UNCHANGED <<modeVars, drawVars, selectIsActive, dragging, dragVertexIndex,
                       dragStartFeature, uuidCount, pushCount, law>>
        /\ ~destroyed /\ UNCHANGED <<destroyed, listeners, renderManager>>
        /\ gesture' = NoGesture

\* LibreDraw.redo
Redo ==
    LET r == redo(undoStack, redoStack, features)
    IN  /\ undoStack' = r.undoStack
        /\ redoStack' = r.redoStack
        /\ features' = r.store
        /\ run' = run
        /\ IF r.ok THEN refreshVertexHandles(r.store)
           ELSE selectedIds' = selectedIds /\ events' = <<>>
        /\ UNCHANGED <<modeVars, drawVars, selectIsActive, dragging, dragVertexIndex,
                       dragStartFeature, uuidCount, pushCount, law>>
        /\ ~destroyed /\ UNCHANGED <<destroyed, listeners, renderManager>>
        /\ gesture' = NoGesture

\* FeatureStore.setAll
setAll(fs) == [i \in 1..Len(fs) |-> fs[i]]

(***************************************************************************)
(* validation/geojson.ts                                                   *)
(***************************************************************************)
validateCoordinate(position) ==
    /\ position[1] >= -180 /\ position[1] <= 180
    /\ position[2] >= -90 /\ position[2] <= 90

validateRing(ring) ==
    /\ Len(ring) >= 4
    /\ posEqual(ring[1], ring[Len(ring)])
    /\ \A i \in 1..Len(ring) : Len(ring[i]) >= 2 /\ validateCoordinate(ring[i])

\* the feature passes validateFeature: it does not throw
validateFeature(feature) == validateRing(feature.ring)

\* the collection passes validateGeoJSON: every feature is validated before any
\* is returned
validateGeoJSON(fs) == \A i \in 1..Len(fs) : validateFeature(fs[i])

\* the import threw a LibreDrawError: what the editor held when it was called
Threw(op) ==
    [kind |-> "importThrew",
     op |-> op,
     store |-> features,
     undo |-> undoStack,
     redo |-> redoStack,
     selected |-> selectedIds]

\* LibreDraw.setFeatures on a collection of features that carry ids, lines 297-300
setFeatures(fs) ==
    /\ ~destroyed /\ UNCHANGED <<destroyed, listeners>>
    /\ IF ~validateGeoJSON(fs)
       THEN /\ gesture' = Threw("setFeatures")
            /\ UNCHANGED <<features, undoStack, redoStack, run, uuidCount>>
       ELSE /\ \A i \in 1..Len(fs) : uuidCount + i \in FeatureIds
            /\ uuidCount' = uuidCount + Len(fs)
            /\ features' = setAll(fs)
            /\ undoStack' = clear(undoStack)
            /\ redoStack' = clear(redoStack)
            /\ run' = EmptyRun
            /\ gesture' = NoGesture
    /\ events' = <<>>
    /\ UNCHANGED <<modeVars, drawVars, selVars, pushCount, law>>

SetFeatures(fs) == setFeatures(fs) /\ UNCHANGED renderManager

\* the collections handed to setFeatures: one feature with an id not yet in use
FeatureCollections == {<<Polygon(uuidCount + 1, r)>> : r \in InputRings}

(***************************************************************************)
(* FeatureStore, the actions and HistoryManager used directly, as the      *)
(* undo/redo integration tests use them: change the store, push the action *)
(***************************************************************************)
HistFrame ==
    UNCHANGED <<modeVars, drawVars, selVars, uuidCount, law, gesture, destroyed, listeners,
                renderManager>>

\* history.push(action), the run of pushes recorded
HistPush(action) ==
    /\ pushCount < MaxPushes
    /\ undoStack' = push(undoStack, action)
    /\ redoStack' = <<>>
    /\ pushCount' = pushCount + 1
    /\ run' = RunPush(run, action, features')

StoreAdd(ring) ==
    LET feature == Polygon(pushCount + 1, ring)
    IN  /\ features' = add(features, feature, 0)
        /\ HistPush(CreateAction(feature))
        /\ events' = <<>>
        /\ HistFrame

StoreUpdate(id, ring) ==
    LET cloned == cloneFeature(getById(features, id))
        updated == Polygon(id, ring)
    IN  /\ has(features, id)
        /\ features' = update(features, id, updated)
        /\ HistPush(UpdateAction(id, cloned, updated))
        /\ events' = <<>>
        /\ HistFrame

StoreRemove(id) ==
    LET feature == getById(features, id)
    IN  /\ has(features, id)
        /\ features' = remove(features, id)
        /\ HistPush(DeleteAction(feature))
        /\ events' = <<>>
        /\ HistFrame

\* history.undo(store)
HistUndo ==
    LET r == undo(undoStack, redoStack, features)
    IN  /\ undoStack' = r.undoStack
        /\ redoStack' = r.redoStack
        /\ features' = r.store
        /\ run' = RunUndo(run, r.ok)
        /\ events' = <<>>
        /\ pushCount' = pushCount
        /\ HistFrame

\* history.redo(store)
HistRedo ==
    LET r == redo(undoStack, redoStack, features)
    IN  /\ undoStack' = r.undoStack
        /\ redoStack' = r.redoStack
        /\ features' = r.store
        /\ run' = RunRedo(run, r.ok)
        /\ events' = <<>>
        /\ pushCount' = pushCount
        /\ HistFrame

\* history.clear()
HistClear ==
    /\ undoStack' = clear(undoStack)
    /\ redoStack' = clear(redoStack)
    /\ run' = EmptyRun
    /\ events' = <<>>
    /\ UNCHANGED <<features, pushCount>>
    /\ HistFrame


(***************************************************************************)
(* A mouse double-click as input/MouseInput.ts forwards it: the browser    *)
(* delivers mousedown, mouseup, mousedown, mouseup and dblclick at one     *)
(* point, and each is routed to the handler of select mode.                *)
(***************************************************************************)
MouseEvents == <<"down", "up", "down", "up", "dblclick">>

\* how many events of the double-click at lngLat have been delivered
ClickStage(lngLat) ==
    IF gesture.kind = "click" /\ gesture.at = lngLat /\ gesture.stage < Len(MouseEvents)
    THEN gesture.stage ELSE 0

MouseDoubleClick(lngLat) ==
    LET stage == ClickStage(lngLat)
        name == MouseEvents[stage + 1]
    IN  /\ currentModeName = "select"
        /\ CASE name = "down" -> SelOnPointerDown(lngLat)
             [] name = "up" -> SelOnPointerUp
             [] OTHER -> SelOnDoubleClick(lngLat)
        /\ SelFrame
        /\ ~destroyed /\ UNCHANGED <<destroyed, listeners, renderManager>>
        /\ gesture' = IF stage = 0
                      THEN [kind |-> "click",
                            at |-> lngLat,
                            stage |-> 1,
                            target |-> PressTarget(lngLat),
                            id |-> getFirstSelectedId,
                            before |-> getById(features, getFirstSelectedId),
                            store |-> features,
                            undo |-> undoStack,
                            redo |-> redoStack]
                      ELSE [gesture EXCEPT !.stage = stage + 1]
        /\ pushCount' <= MaxPushes

ClickNext ==
    \/ \E name \in {"idle", "select"} : SetMode(name)
    \/ \E fs \in FeatureCollections : SetFeatures(fs)
    \/ \E lngLat \in SelectPts : PointerDown(lngLat)
    \/ PointerUp
    \/ \E lngLat \in SelectPts : MouseDoubleClick(lngLat)
    \/ Undo
    \/ Redo

ClickSpec == Init /\ [][ClickNext]_vars


(***************************************************************************)
(* A touch held in place as input/TouchInput.ts forwards it: touchstart    *)
(* dispatches onPointerDown and starts the long-press timer; the timer     *)
(* dispatches onLongPress after LONG_PRESS_MS unless a touchend or a move  *)
(* beyond the tolerance cancelled it.                                      *)
(***************************************************************************)
\* handleTouchStart with one finger down, no other finger being on the screen
TouchStart(lngLat) ==
    /\ gesture.kind \notin {"touch", "touchMoved", "pinch"}
    /\ CASE currentModeName = "draw" -> DrawOnPointerDown(lngLat) /\ DrawFrame
         [] currentModeName = "select" -> SelOnPointerDown(lngLat) /\ SelFrame
         [] OTHER -> IdleEvent
    /\ ~destroyed /\ UNCHANGED <<destroyed, listeners, renderManager>>
    /\ gesture' = [kind |-> "touch",
                   at |-> lngLat,
                   fired |-> FALSE,
                   mode |-> currentModeName,
                   vertices |-> vertices]
    /\ pushCount' <= MaxEdits

\* the long-press timer fires: the touch was held and has not moved
LongPressTimer ==
    /\ gesture.kind = "touch"
    /\ ~gesture.fired
    /\ CASE currentModeName = "draw" -> DrawOnLongPress /\ DrawFrame
         [] currentModeName = "select" -> SelOnLongPress(gesture.at) /\ SelFrame
         [] OTHER -> IdleEvent
    /\ ~destroyed /\ UNCHANGED <<destroyed, listeners, renderManager>>
    /\ gesture' = [gesture EXCEPT !.fired = TRUE]
    /\ pushCount' <= MaxEdits

\* handleTouchEnd: the timer is cancelled; onPointerUp is dispatched unless the
\* long-press has fired
TouchEnd ==
    /\ gesture.kind \in {"touch", "touchMoved"}
    /\ IF gesture.fired
       THEN IdleEvent
       ELSE CASE currentModeName = "draw" -> DrawKeep(vertices) /\ DrawFrame
              [] currentModeName = "select" -> SelOnPointerUp /\ SelFrame
              [] OTHER -> IdleEvent
    /\ ~destroyed /\ UNCHANGED <<destroyed, listeners, renderManager>>
    /\ gesture' = IF gesture.fired THEN [gesture EXCEPT !.kind = "touchEnded"] ELSE NoGesture

\* handleTouchMove with one finger down: a move beyond LONG_PRESS_TOLERANCE cancels
\* the timer (MovePts are that far from every press), onPointerMove is dispatched
TouchMove(lngLat) ==
    /\ gesture.kind \in {"touch", "touchMoved"}
    /\ CASE currentModeName = "draw" -> DrawKeep(vertices) /\ DrawFrame
         [] currentModeName = "select" -> SelOnPointerMove(lngLat) /\ SelFrame
         [] OTHER -> IdleEvent
    /\ ~destroyed /\ UNCHANGED <<destroyed, listeners, renderManager>>
    /\ gesture' = IF gesture.fired THEN gesture ELSE [gesture EXCEPT !.kind = "touchMoved"]

\* handleTouchStart with a second finger down: isPinching is set, the timer is
\* cancelled and nothing is dispatched
PinchStart ==
    /\ gesture.kind \in {"touch", "touchMoved"}
    /\ IdleEvent
    /\ ~destroyed /\ UNCHANGED <<destroyed, listeners, renderManager>>
    /\ gesture' = [gesture EXCEPT !.kind = "pinch"]

\* handleTouchEnd while pinching, until no finger is left: nothing is dispatched
PinchEnd ==
    /\ gesture.kind = "pinch"
    /\ IdleEvent
    /\ ~destroyed /\ UNCHANGED <<destroyed, listeners, renderManager>>
    /\ gesture' = [gesture EXCEPT !.kind = "touchEnded"]

\* drawing by touch around a first vertex that an earlier edge passes by: the
\* edge (8,0)-(0,1) runs between the first vertex (4,0) and the tap (4,1), which
\* is CLOSE_THRESHOLD_PX away from it
ClosePts == {<<4, 0>>, <<8, 0>>, <<0, 1>>, <<4, 4>>, <<4, 1>>}

CloseNext ==
    \/ \E name \in {"idle", "draw"} : SetMode(name)
    \/ \E lngLat \in ClosePts : TouchStart(lngLat)
    \/ LongPressTimer
    \/ TouchEnd

CloseSpec == Init /\ [][CloseNext]_vars

\* a finger is on the screen
FingerDown == gesture.kind \in {"touch", "touchMoved", "pinch"}

\* editing by touch: a feature is imported and select mode is driven by one
\* finger, or by two; the host calls the facade between touches
FingerNext ==
    \/ \E name \in {"idle", "select"} : ~FingerDown /\ SetMode(name)
    \/ \E fs \in FeatureCollections : ~FingerDown /\ SetFeatures(fs)
    \/ \E lngLat \in SelectPts : TouchStart(lngLat)
    \/ \E lngLat \in MovePts : TouchMove(lngLat)
    \/ LongPressTimer
    \/ TouchEnd
    \/ PinchStart
    \/ PinchEnd

FingerSpec == Init /\ [][FingerNext]_vars

\* drawing by touch
TouchNext ==
    \/ \E name \in {"idle", "draw"} : SetMode(name)
    \/ \E lngLat \in DrawPts : TouchStart(lngLat)
    \/ LongPressTimer
    \/ TouchEnd
    \/ \E key \in Keys : KeyDown(key)
    \/ Undo
    \/ Redo

TouchSpec == Init /\ [][TouchNext]_vars

(***************************************************************************)
(* The programmatic operations of the LibreDraw facade                     *)
(***************************************************************************)
\* SelectMode.selectFeature, called by LibreDraw.selectFeature once select mode is
\* active: cancel a drag in progress, restore panning, replace the selection
selectFeature(id, panBefore) ==
    /\ dragPan' = IF dragging THEN TRUE ELSE panBefore
    /\ dragging' = FALSE
    /\ dragVertexIndex' = -1
    /\ dragStartFeature' = NoFeature
    /\ selectedIds' = <<id>>

\* a selectFeature of the facade that selects without switching to select mode
SelectFeatureStaysInMode(id) ==
    /\ ~destroyed /\ UNCHANGED <<destroyed, listeners, renderManager>>
    /\ gesture' = NoGesture
    /\ UNCHANGED <<features, histVars, uuidCount>>
    /\ IF getById(features, id) = NoFeature
       THEN /\ events' = <<>>
            /\ UNCHANGED <<modeVars, drawVars, selVars>>
       ELSE /\ selectFeature(id, dragPan)
            /\ events' = <<SelectionChangeEvent(<<id>>)>>
            /\ UNCHANGED <<currentModeName, drawVars, selectIsActive>>

\* LibreDraw.selectFeature
SelectFeature(id) ==
    /\ ~destroyed /\ UNCHANGED <<destroyed, listeners, renderManager>>
    /\ gesture' = NoGesture
    /\ UNCHANGED <<features, histVars, uuidCount>>
    /\ IF getById(features, id) = NoFeature
       THEN /\ events' = <<>>
            /\ UNCHANGED <<modeVars, drawVars, selVars>>
       ELSE IF currentModeName # "select"
       THEN /\ currentModeName' = "select"
            /\ drawIsActive' = activeAfter(drawIsActive, "draw", "select", currentModeName)
            /\ vertices' = IF currentModeName = "draw" THEN <<>> ELSE vertices
            /\ selectIsActive' = activeAfter(selectIsActive, "select", "select",
                                             currentModeName)
            /\ selectFeature(id, dragPan)
            /\ events' = Append(setModeTrace("select", currentModeName, <<>>),
                                SelectionChangeEvent(<<id>>))
       ELSE /\ selectFeature(id, dragPan)
            /\ events' = <<SelectionChangeEvent(<<id>>)>>
            /\ UNCHANGED <<currentModeName, drawVars, selectIsActive>>

\* SelectMode.clearSelection, called by LibreDraw.clearSelection and deleteFeature
clearSelection ==
    IF ~selectIsActive
    THEN /\ events' = <<>>
         /\ UNCHANGED <<selectedIds, dragging, dragVertexIndex, dragStartFeature, dragPan>>
    ELSE /\ endDrag
         /\ selectedIds' = <<>>
         /\ events' = IF Len(selectedIds) > 0 THEN <<SelectionChangeEvent(<<>>)>> ELSE <<>>

\* LibreDraw.clearSelection
ClearSelection ==
    /\ ~destroyed /\ UNCHANGED <<destroyed, listeners, renderManager>>
    /\ gesture' = NoGesture
    /\ clearSelection
    /\ UNCHANGED <<currentModeName, drawVars, selectIsActive, features, histVars, uuidCount>>

\* LibreDraw.deleteFeature
DeleteFeature(id) ==
    LET feature == getById(features, id)
        isSelected == \E i \in 1..Len(selectedIds) : selectedIds[i] = id
    IN  /\ ~destroyed /\ UNCHANGED <<destroyed, listeners, renderManager>>
        /\ gesture' = NoGesture
        /\ UNCHANGED <<currentModeName, drawVars, selectIsActive, uuidCount>>
        /\ IF feature = NoFeature
           THEN /\ events' = <<>>
                /\ UNCHANGED <<selectedIds, dragging, dragVertexIndex, dragStartFeature,
                               dragPan, features, histVars>>
           ELSE /\ IF isSelected /\ selectIsActive
                   THEN /\ endDrag
                        /\ selectedIds' = <<>>
                        /\ events' = <<SelectionChangeEvent(<<>>), DeleteEvent(feature)>>
                   ELSE /\ events' = <<DeleteEvent(feature)>>
                        /\ UNCHANGED <<selectedIds, dragging, dragVertexIndex,
                                       dragStartFeature, dragPan>>
                /\ features' = remove(features, id)
                /\ PushToHistory(DeleteAction(feature))
                /\ pushCount' = pushCount + 1
                /\ pushCount' <= MaxEdits

RECURSIVE addEach(_, _)
\* the loop of addFeatures: each feature is validated and added in turn, and the
\* loop ends at the first feature that does not pass
addEach(s, fs) ==
    IF Len(fs) = 0 THEN s
    ELSE IF ~validateFeature(Head(fs)) THEN s
    ELSE addEach(add(s, Head(fs), Head(fs).id), Tail(fs))

\* LibreDraw.addFeatures on features that carry ids
AddFeatures(fs) ==
    /\ ~destroyed /\ UNCHANGED <<destroyed, listeners, renderManager>>
    /\ gesture' = IF validateGeoJSON(fs) THEN NoGesture ELSE Threw("addFeatures")
    /\ features' = addEach(features, fs)
    /\ events' = <<>>
    /\ UNCHANGED <<modeVars, drawVars, selVars, histVars, uuidCount>>

\* a handler registered with on(type, ...): it calls a public method of the
\* LibreDraw instance (calls = TRUE) or only reads its payload
Listener(type, calls) == [type |-> type, calls |-> calls]

\* EventBus.emit(type, ...) runs a handler that calls a public method
Reenters(type) == Listener(type, TRUE) \in listeners

\* LibreDraw.on
On(type, calls) ==
    /\ ~destroyed
    /\ listeners' = listeners \cup {Listener(type, calls)}
    /\ events' = <<>>
    /\ gesture' = NoGesture
    /\ UNCHANGED <<modeVars, drawVars, selVars, features, histVars, uuidCount, destroyed,
                   renderManager>>

\* LibreDraw.off
Off(type, calls) ==
    /\ ~destroyed
    /\ listeners' = listeners \ {Listener(type, calls)}
    /\ events' = <<>>
    /\ gesture' = NoGesture
    /\ UNCHANGED <<modeVars, drawVars, selVars, features, histVars, uuidCount, destroyed,
                   renderManager>>

\* LibreDraw.destroy.  The flag is set first, so a handler that calls a public
\* method while setMode('idle') emits gets a LibreDrawError from assertNotDestroyed;
\* EventBus.emit catches nothing and the error leaves destroy at that point.
Destroy ==
    IF destroyed THEN UNCHANGED vars
    ELSE LET previousMode == currentModeName
             panAfterDeactivate ==
                 IF previousMode = "select" /\ dragging THEN TRUE ELSE dragPan
             selectionThrows ==
                 previousMode = "select" /\ Len(selectedIds) > 0 /\ Reenters("selectionchange")
             modeChangeThrows == previousMode # "idle" /\ Reenters("modechange")
         IN  /\ destroyed' = TRUE
             /\ gesture' = NoGesture
             /\ UNCHANGED <<uuidCount, pushCount, run, law, renderManager>>
             /\ IF selectionThrows
                THEN \* thrown out of SelectMode.deactivate, line 92
                     /\ selectIsActive' = FALSE
                     /\ selectDeactivate
                     /\ dragPan' = panAfterDeactivate
                     /\ events' = <<ModeCall("deactivate", previousMode, ""),
                                    SelectionChangeEvent(<<>>)>>
                     /\ UNCHANGED <<currentModeName, drawVars, features, undoStack,
                                    redoStack, listeners>>
                ELSE IF modeChangeThrows
                THEN \* thrown out of the mode-change callback, line 142
                     /\ currentModeName' = "idle"
                     /\ drawIsActive' = activeAfter(drawIsActive, "draw", "idle", previousMode)
                     /\ vertices' = IF previousMode = "draw" THEN <<>> ELSE vertices
                     /\ selectIsActive' =
                            activeAfter(selectIsActive, "select", "idle", previousMode)
                     /\ IF previousMode = "select"
                        THEN selectDeactivate
                        ELSE UNCHANGED <<selectedIds, dragging, dragVertexIndex,
                                         dragStartFeature>>
                     /\ dragPan' = panAfterDeactivate
                     /\ events' = setModeTrace("idle", previousMode,
                                       IF previousMode = "select" /\ Len(selectedIds) > 0
                                       THEN <<SelectionChangeEvent(<<>>)>> ELSE <<>>)
                     /\ UNCHANGED <<features, undoStack, redoStack, listeners>>
                ELSE /\ setMode("idle")
                     /\ listeners' = {}
                     /\ undoStack' = clear(undoStack)
                     /\ redoStack' = clear(redoStack)
                     /\ features' = <<>>

\* the features handed to addFeatures and the collections handed to setFeatures
ApiFeatures == {<<Polygon(i, TriRing)>> : i \in FeatureIds}
ApiCollections == FeatureCollections \cup {<<>>}

\* bulk imports: a ring that is not closed makes a feature invalid
OpenRing == <<<<0, 0>>, <<4, 0>>, <<4, 4>>>>
ImportFeatures ==
    {Polygon(i, TriRing) : i \in FeatureIds \cup {ImportedId}}
    \cup {Polygon(ImportedId, OpenRing)}
\* batches of one or two features, valid or not
ImportBatches ==
    {<<f>> : f \in ImportFeatures}
    \cup {p \in ImportFeatures \X ImportFeatures : p[1] # p[2]}
\* collections for setFeatures: as the batches, the fresh id given to valid features
ImportCollections ==
    {[i \in 1..Len(b) |-> IF validateFeature(b[i]) THEN Polygon(uuidCount + i, b[i].ring)
                                                     ELSE b[i]] : b \in ImportBatches}

ImportNext ==
    \/ \E name \in {"idle", "select"} : SetMode(name)
    \/ \E fs \in ImportCollections : SetFeatures(fs)
    \/ \E fs \in ImportBatches : AddFeatures(fs)
    \/ \E lngLat \in BodyPts : PointerDown(lngLat)
    \/ \E key \in Keys : KeyDown(key)
    \/ Undo
    \/ Redo

ImportSpec == Init /\ [][ImportNext]_vars

\* presses that select a feature and take hold of a vertex of it
HandlePts == BodyPts \cup {<<0, 0>>}

\* destroy with handlers registered
ListenerTypes == {"selectionchange", "modechange"}

DestroyNext ==
    \/ \E name \in ModeNames : SetMode(name)
    \/ \E fs \in FeatureCollections : SetFeatures(fs)
    \/ \E lngLat \in HandlePts : PointerDown(lngLat)
    \/ PointerUp
    \/ \E type \in ListenerTypes, calls \in BOOLEAN : On(type, calls)
    \/ \E type \in ListenerTypes, calls \in BOOLEAN : Off(type, calls)
    \/ Destroy

DestroySpec == Init /\ [][DestroyNext]_vars

\* mode switches, programmatic selection and destroy, at any point of a gesture
ModeNext ==
    \/ \E name \in ModeNames : SetMode(name)
    \/ \E fs \in FeatureCollections : SetFeatures(fs)
    \/ \E id \in FeatureIds : SelectFeature(id)
    \/ ClearSelection
    \/ Destroy
    \/ \E lngLat \in SelectPts : PointerDown(lngLat)
    \/ PointerUp

ModeSpec == Init /\ [][ModeNext]_vars

\* the public operations that change the store or the selection
ApiNext ==
    \/ \E name \in {"idle", "select"} : SetMode(name)
    \/ \E fs \in ApiCollections : SetFeatures(fs)
    \/ \E fs \in ApiFeatures : AddFeatures(fs)
    \/ \E id \in FeatureIds : DeleteFeature(id)
    \/ \E id \in FeatureIds : SelectFeature(id)
    \/ ClearSelection
    \/ \E lngLat \in SelectPts : PointerDown(lngLat)
    \/ PointerUp
    \/ \E key \in Keys : KeyDown(key)
    \/ Undo
    \/ Redo

ApiSpec == Init /\ [][ApiNext]_vars


(***************************************************************************)
(* Selection by pointer among two features: the editor after setFeatures  *)
(* of a collection of two polygons                                         *)
(***************************************************************************)
UpperTriRing == <<<<0, 0>>, <<4, 4>>, <<0, 4>>, <<0, 0>>>>
PickRings == {UpperTriRing, SqRing}
PickStores ==
    UNION {{<<Polygon(1, TriRing), Polygon(2, r)>>,
            <<Polygon(2, r), Polygon(1, TriRing)>>} : r \in PickRings}
\* presses: the handles and the body of the first feature, the body of the second,
\* and empty space
PickPts == SelectPts \cup {<<1, 3>>} \cup MovePts

PickInit ==
    /\ currentModeName = "idle"
    /\ drawIsActive = FALSE
    /\ vertices = <<>>
    /\ selectIsActive = FALSE
    /\ selectedIds = <<>>
    /\ dragging = FALSE
    /\ dragVertexIndex = -1
    /\ dragStartFeature = NoFeature
    /\ features \in PickStores
    /\ undoStack = <<>>
    /\ redoStack = <<>>
    /\ dragPan = TRUE
    /\ uuidCount = 2
    /\ events = <<>>
    /\ pushCount = 0
    /\ run = EmptyRun
    /\ law = NoLaw
    /\ gesture = NoGesture
    /\ destroyed = FALSE
    /\ listeners = {}
    /\ renderManager = NoRender

PickNext ==
    \/ \E name \in {"idle", "select"} : SetMode(name)
    \/ \E lngLat \in PickPts : PointerDown(lngLat)
    \/ PointerUp

PickSpec == PickInit /\ [][PickNext]_vars

(***************************************************************************)
(* setMode called from inside a listener.  EventBus.emit runs the          *)
(* listeners synchronously, so a handler that calls setMode runs the whole *)
(* of ModeManager.setMode inside the emit of the call that is under way.   *)
(* The calls are computed on a record of the mode state; log is what the   *)
(* listening-only handlers are handed, each entry followed by what         *)
(* getMode() returns at that moment.                                       *)
(***************************************************************************)
RECURSIVE emit(_, _, _, _, _)
RECURSIVE ModeManagerSetMode(_, _, _, _)

\* the registered handlers in an order: EventBus keeps a Set, which iterates in
\* registration order, and listeners does not record the order on() was called in
Orders(S) ==
    {s \in [1..Cardinality(S) -> S] :
        \A i, j \in 1..Cardinality(S) : i # j => s[i] # s[j]}

\* DrawMode.activate, SelectMode.activate
activate(st, name) ==
    CASE name = "draw" -> [st EXCEPT !.drawIsActive = TRUE, !.vertices = <<>>]
      [] name = "select" -> [st EXCEPT !.selectIsActive = TRUE]
      [] OTHER -> st

\* deactivate of the mode st.current.  SelectMode.deactivate clears the selection
\* before notifySelectionChange emits
deactivate(st, all, target) ==
    CASE st.current = "draw" -> [st EXCEPT !.drawIsActive = FALSE, !.vertices = <<>>]
      [] st.current = "select" ->
            LET ended == [st EXCEPT !.selectIsActive = FALSE,
                                    !.dragPan = IF st.dragging THEN TRUE ELSE @,
                                    !.dragging = FALSE,
                                    !.dragVertexIndex = -1,
                                    !.dragStartFeature = NoFeature]
            IN  IF Len(ended.selectedIds) > 0
                THEN emit([ended EXCEPT !.selectedIds = <<>>], all, all, target,
                          SelectionChangeEvent(<<>>))
                ELSE ended
      [] OTHER -> st

\* the mode-change callback of the LibreDraw constructor: emit, then dragPan
onModeChange(st, all, target, m, previousMode) ==
    LET emitted == emit(st, all, all, target, ModeChangeEvent(m, previousMode))
    IN  [emitted EXCEPT !.dragPan = CASE m = "draw" -> FALSE
                                      [] m = "select" -> @
                                      [] OTHER -> TRUE]

\* EventBus.emit over the handlers rest, of the handlers all: a handler that calls
\* runs setMode(target), one that listens records the payload and getMode()
emit(st, all, rest, target, ev) ==
    IF rest = <<>> THEN st
    ELSE LET listener == Head(rest)
             after ==
                 IF listener.type # ev.type THEN st
                 ELSE IF listener.calls THEN ModeManagerSetMode(st, all, target, target)
                 ELSE [st EXCEPT !.log = @ \o <<ev, ModeCall("getMode", st.current, "")>>]
         IN  emit(after, all, Tail(rest), target, ev)

\* ModeManager.setMode, lines 44-64: currentModeName is assigned after
\* current.deactivate() has returned
ModeManagerSetMode(st, all, target, name) ==
    IF name = st.current THEN st
    ELSE LET previousMode == st.current
             deactivated == deactivate(st, all, target)
             switched == [deactivated EXCEPT !.current = name]
         IN  onModeChange(activate(switched, name), all, target, name, previousMode)

\* LibreDraw.setMode(name) while the registered handlers that call a method call
\* setMode(target)
SetModeObserved(name, target) ==
    /\ ~destroyed /\ UNCHANGED <<destroyed, listeners, renderManager>>
    /\ \E all \in Orders(listeners) :
        LET st == [current |-> currentModeName, drawIsActive |-> drawIsActive,
                   vertices |-> vertices, selectIsActive |-> selectIsActive,
                   selectedIds |-> selectedIds, dragging |-> dragging,
                   dragVertexIndex |-> dragVertexIndex,
                   dragStartFeature |-> dragStartFeature, dragPan |-> dragPan,
                   log |-> <<>>]
            done == ModeManagerSetMode(st, all, target, name)
        IN  /\ currentModeName' = done.current
            /\ drawIsActive' = done.drawIsActive
            /\ vertices' = done.vertices
            /\ selectIsActive' = done.selectIsActive
            /\ selectedIds' = done.selectedIds
            /\ dragging' = done.dragging
            /\ dragVertexIndex' = done.dragVertexIndex
            /\ dragStartFeature' = done.dragStartFeature
            /\ dragPan' = done.dragPan
            /\ events' = done.log
    /\ UNCHANGED <<features, histVars, uuidCount>>
    /\ gesture' = NoGesture

\* the event types a mode switch emits
SwitchEvents == {"selectionchange", "modechange"}

\* no registered handler calls a method
NoCaller == \A listener \in listeners : ~listener.calls

\* mode switches with handlers registered for what a switch emits; the selection
\* is made while no handler calls
ChainNext ==
    \/ \E name \in ModeNames, target \in ModeNames : SetModeObserved(name, target)
    \/ \E type \in SwitchEvents, calls \in BOOLEAN : On(type, calls)
    \/ \E type \in SwitchEvents, calls \in BOOLEAN : Off(type, calls)
    \/ \E id \in FeatureIds : NoCaller /\ SelectFeature(id)

ChainSpec == PickInit /\ [][ChainNext]_vars

(***************************************************************************)
(* rendering/RenderManager.ts, and the operations of the editor with the   *)
(* render requests they make.  The other specifications leave the          *)
(* RenderManager as it is after construction.                              *)
(***************************************************************************)
\* RenderManager.setSelectedIds
setSelectedIds(rm, ids) == [rm EXCEPT !.selectedIds = {ids[i] : i \in 1..Len(ids)}]

\* RenderManager.render: the array is kept and one animation frame is requested
\* unless one is pending
render(rm, fs) == [rm EXCEPT !.pendingFeatures = <<fs>>, !.pendingRender = TRUE]

\* RenderManager.performRender: the feature collection handed to the map source
performRender(rm) ==
    IF rm.pendingFeatures = <<>> THEN rm
    ELSE LET fs == rm.pendingFeatures[1]
         IN  [rm EXCEPT
                !.rendered = [i \in 1..Len(fs) |->
                                 [id |-> fs[i].id, ring |-> fs[i].ring,
                                  selected |-> fs[i].id \in rm.selectedIds]],
                !.pendingFeatures = <<>>]

\* the callback of requestAnimationFrame, lines 192-195
AnimationFrame ==
    /\ renderManager.pendingRender
    /\ renderManager' = [performRender(renderManager) EXCEPT !.pendingRender = FALSE]
    /\ events' = <<>>
    /\ gesture' = NoGesture
    /\ UNCHANGED <<modeVars, drawVars, selVars, features, histVars, uuidCount,
                   destroyed, listeners>>

\* LibreDraw.setMode: SelectMode.deactivate hands the emptied selection to the
\* RenderManager and requests no render
SetModeRendered(name) ==
    /\ ~destroyed /\ UNCHANGED <<destroyed, listeners>>
    /\ setMode(name)
    /\ UNCHANGED <<features, histVars, uuidCount>>
    /\ gesture' = NoGesture
    /\ renderManager' =
           IF currentModeName = "select" /\ name # "select" /\ Len(selectedIds) > 0
           THEN setSelectedIds(renderManager, selectedIds')
           ELSE renderManager

\* LibreDraw.setFeatures, line 301: renderAllFeatures
SetFeaturesRendered(fs) ==
    /\ setFeatures(fs)
    /\ renderManager' = IF validateGeoJSON(fs) THEN render(renderManager, getAll(features'))
                         ELSE renderManager

\* a press in select mode: a click that selects ends with notifySelectionChange
\* and renderFeatures (lines 169-170); a press on a vertex or on a midpoint
\* returns before them (lines 119, 136)
PointerDownRendered(lngLat) ==
    /\ currentModeName # "draw"
    /\ onPointerDown(lngLat)
    /\ renderManager' =
           IF /\ currentModeName = "select"
              /\ selectIsActive
              /\ PressTarget(lngLat) = "none"
              /\ ~ScanThrows(features, lngLat)
           THEN render(setSelectedIds(renderManager, selectedIds'), getAll(features'))
           ELSE renderManager

\* what the map shows when the store and the selection are rendered
Rendering(s, ids) ==
    [i \in 1..Len(s) |->
        [id |-> s[i].id, ring |-> s[i].ring,
         selected |-> \E j \in 1..Len(ids) : ids[j] = s[i].id]]

RenderNext ==
    \/ \E name \in {"idle", "select"} : SetModeRendered(name)
    \/ \E fs \in FeatureCollections : SetFeaturesRendered(fs)
    \/ \E lngLat \in SelectPts \cup MovePts : PointerDownRendered(lngLat)
    \/ AnimationFrame

RenderSpec == Init /\ [][RenderNext]_vars

(***************************************************************************)
(* Specifications                                                          *)
(***************************************************************************)
\* the whole editor
Next ==
    \/ \E name \in ModeNames : SetMode(name)
    \/ \E fs \in FeatureCollections : SetFeatures(fs)
    \/ \E lngLat \in DrawPts \cup SelectPts : PointerDown(lngLat)
    \/ \E lngLat \in MovePts : PointerMove(lngLat)
    \/ PointerUp
    \/ \E lngLat \in DrawPts \cup SelectPts : DoubleClick(lngLat)
    \/ \E lngLat \in DrawPts \cup SelectPts : LongPress(lngLat)
    \/ \E key \in Keys : KeyDown(key)
    \/ Undo
    \/ Redo

Spec == Init /\ [][Next]_vars

\* drawing: the editor driven between idle and draw mode
DrawNext ==
    \/ \E name \in {"idle", "draw"} : SetMode(name)
    \/ \E lngLat \in DrawPts : PointerDown(lngLat)
    \/ \E lngLat \in DrawPts : PointerMove(lngLat)
    \/ PointerUp
    \/ \E lngLat \in DrawPts : DoubleClick(lngLat)
    \/ \E lngLat \in DrawPts : LongPress(lngLat)
    \/ \E key \in Keys : KeyDown(key)
    \/ Undo
    \/ Redo

DrawSpec == Init /\ [][DrawNext]_vars

\* drawing over an imported feature: the editor after setFeatures of a collection
\* that is empty or holds one polygon
SketchStores == {<<>>} \cup {<<Polygon(ImportedId, r)>> : r \in InputRings}

SketchInit ==
    /\ currentModeName = "idle"
    /\ drawIsActive = FALSE
    /\ vertices = <<>>
    /\ selectIsActive = FALSE
    /\ selectedIds = <<>>
    /\ dragging = FALSE
    /\ dragVertexIndex = -1
    /\ dragStartFeature = NoFeature
    /\ features \in SketchStores
    /\ undoStack = <<>>
    /\ redoStack = <<>>
    /\ dragPan = TRUE
    /\ uuidCount = 0
    /\ events = <<>>
    /\ pushCount = 0
    /\ run = EmptyRun
    /\ law = NoLaw
    /\ gesture = NoGesture
    /\ destroyed = FALSE
    /\ listeners = {}
    /\ renderManager = NoRender

SketchSpec == SketchInit /\ [][DrawNext]_vars

\* editing: features are imported, the editor is driven between idle and select mode
EditNext ==
    \/ \E name \in {"idle", "select"} : SetMode(name)
    \/ \E fs \in FeatureCollections : SetFeatures(fs)
    \/ \E lngLat \in SelectPts : PointerDown(lngLat)
    \/ \E lngLat \in MovePts : PointerMove(lngLat)
    \/ PointerUp
    \/ \E lngLat \in SelectPts : DoubleClick(lngLat)
    \/ \E lngLat \in SelectPts : LongPress(lngLat)
    \/ \E key \in Keys : KeyDown(key)
    \/ Undo
    \/ Redo

EditSpec == Init /\ [][EditNext]_vars

\* editing with a drag index that outlives the ring it was taken from: a square
\* or a hexagon is in the store under its own id, and while its last vertex is
\* dragged the ring is shortened by a vertex deletion, an undo or an import of a
\* triangle under the same id
HexRing == <<<<1, 0>>, <<4, 0>>, <<5, 2>>, <<4, 4>>, <<1, 4>>, <<0, 2>>, <<1, 0>>>>
RingStores == {<<Polygon(1, r)>> : r \in {SqRing, HexRing}}
\* presses: the body and the last vertex of either ring
RingPts == BodyPts \cup {<<0, 4>>, <<0, 2>>}

RingInit ==
    /\ currentModeName = "idle"
    /\ drawIsActive = FALSE
    /\ vertices = <<>>
    /\ selectIsActive = FALSE
    /\ selectedIds = <<>>
    /\ dragging = FALSE
    /\ dragVertexIndex = -1
    /\ dragStartFeature = NoFeature
    /\ features \in RingStores
    /\ undoStack = <<>>
    /\ redoStack = <<>>
    /\ dragPan = TRUE
    /\ uuidCount = 0
    /\ events = <<>>
    /\ pushCount = 0
    /\ run = EmptyRun
    /\ law = NoLaw
    /\ gesture = NoGesture
    /\ destroyed = FALSE
    /\ listeners = {}
    /\ renderManager = NoRender

RingNext ==
    \/ \E name \in {"idle", "select"} : SetMode(name)
    \/ SetFeatures(<<Polygon(1, TriRing)>>)
    \/ \E lngLat \in RingPts : PointerDown(lngLat)
    \/ \E lngLat \in MovePts : PointerMove(lngLat)
    \/ PointerUp
    \/ \E lngLat \in RingPts : DoubleClick(lngLat)
    \/ Undo
    \/ Redo

RingSpec == RingInit /\ [][RingNext]_vars

\* the store and the history on their own
HistNext ==
    \/ \E ring \in InputRings : StoreAdd(ring)
    \/ \E id \in 1..MaxPushes, ring \in InputRings : StoreUpdate(id, ring)
    \/ \E id \in 1..MaxPushes : StoreRemove(id)
    \/ HistUndo
    \/ HistRedo
    \/ HistClear

HistSpec == Init /\ [][HistNext]_vars

\* the laws of the actions: an action and a store are drawn, the action is
\* applied and reverted on the store in either order, or applied twice
LawFeatures == {Polygon(i, r) : i \in FeatureIds \cup {2}, r \in InputRings}
LawStores ==
    {<<>>} \cup {<<f>> : f \in LawFeatures}
           \cup {p \in LawFeatures \X LawFeatures : p[1].id # p[2].id}
LawActions ==
    {CreateAction(f) : f \in LawFeatures}
    \cup {DeleteAction(f) : f \in LawFeatures}
    \cup {UpdateAction(p[1].id, p[1], p[2]) :
               p \in {q \in LawFeatures \X LawFeatures : q[1].id = q[2].id}}

LawInit ==
    /\ currentModeName = "idle"
    /\ drawIsActive = FALSE
    /\ vertices = <<>>
    /\ selectIsActive = FALSE
    /\ selectedIds = <<>>
    /\ dragging = FALSE
    /\ dragVertexIndex = -1
    /\ dragStartFeature = NoFeature
    /\ features \in LawStores
    /\ undoStack = <<>>
    /\ redoStack = <<>>
    /\ dragPan = TRUE
    /\ uuidCount = 0
    /\ events = <<>>
    /\ pushCount = 0
    /\ run = EmptyRun
    /\ \E a \in LawActions : law = [phase |-> "start", action |-> a, start |-> features]
    /\ gesture = NoGesture
    /\ destroyed = FALSE
    /\ listeners = {}
    /\ renderManager = NoRender

LawFrame ==
    UNCHANGED <<modeVars, drawVars, selVars, undoStack, redoStack, pushCount, run,
                uuidCount, events, gesture, destroyed, listeners,
                renderManager>>

\* action.apply(store)
LawApply ==
    /\ law.phase \in {"start", "reverted", "applied"}
    /\ features' = apply(law.action, features)
    /\ law' = CASE law.phase = "start" -> [law EXCEPT !.phase = "applied"]
               [] law.phase = "reverted" -> [law EXCEPT !.phase = "revertApplied"]
               [] law.phase = "applied" ->
                      [phase |-> "appliedTwice", action |-> law.action,
                       start |-> law.start, once |-> features]
    /\ LawFrame

\* action.revert(store)
LawRevert ==
    /\ law.phase \in {"start", "applied"}
    /\ features' = revert(law.action, features)
    /\ law' = [law EXCEPT !.phase = IF law.phase = "start" THEN "reverted" ELSE "applyReverted"]
    /\ LawFrame

LawNext == LawApply \/ LawRevert

LawSpec == LawInit /\ [][LawNext]_vars

(***************************************************************************)
(* C1: the inverse law of the actions                                      *)
(***************************************************************************)
\* the store s with the feature of this id moved to the end of its order
MovedLast(s, id) == Append(remove(s, id), getById(s, id))

\* the action is one the program could apply in store s
Applicable(action, s) ==
    CASE action.type = "create" -> ~has(s, action.feature.id)
      [] action.type = "update" -> getById(s, action.id) = action.oldFeature
      [] action.type = "delete" -> getById(s, action.feature.id) = action.feature

\* the action is one the program could have applied to reach store s
Applied(action, s) ==
    CASE action.type = "create" -> getById(s, action.feature.id) = action.feature
      [] action.type = "update" -> getById(s, action.id) = action.newFeature
      [] action.type = "delete" -> ~has(s, action.feature.id)

RECURSIVE RevertAll(_, _)
\* the store after the actions of the sequence are reverted, first to last
RevertAll(actions, s) ==
    IF Len(actions) = 0 THEN s
    ELSE RevertAll(Tail(actions), revert(Head(actions), s))

\* C2: after HistoryLimit + k pushes with no undo in between, exactly the next
\* HistoryLimit undo calls succeed, they revert the most recently pushed actions
\* newest first, and every further undo returns false.
C2_HistoryBound ==
    Len(run.log) >= HistoryLimit =>
        LET n == Len(run.log)
            done == Min(run.undos, HistoryLimit)
        IN  /\ run.oks = done
            /\ redoStack = [i \in 1..done |-> run.log[n - i + 1]]
            /\ undoStack = SubSeq(run.log, n - HistoryLimit + 1, n - done)
            /\ features = RevertAll(redoStack, run.store)
            /\ run.undos >= HistoryLimit => ~undo(undoStack, redoStack, features).ok

\* capacity + 1 features created in sequence, then capacity + 1 undo calls
C2_Witness ==
    /\ Len(run.log) = HistoryLimit + 1
    /\ \A i \in 1..Len(run.log) : run.log[i].type = "create"
    /\ run.undos = HistoryLimit + 1
    /\ run.oks = HistoryLimit
    /\ Len(features) = 1

\* C3: a push empties the redo stack, so the redo right after a push returns
\* false and leaves the store unchanged; and right after one successful undo, one
\* redo succeeds and restores the store to its state before that undo.
C3_RedoInvalidation ==
    [][ /\ pushCount' = pushCount + 1 =>
             LET r == redo(undoStack', redoStack', features')
             IN  redoStack' = <<>> /\ ~r.ok /\ r.store = features'
        /\ (HistUndo /\ Len(undoStack) > 0) =>
             LET r == redo(undoStack', redoStack', features')
             IN  r.ok /\ r.store = features ]_vars

(***************************************************************************)
(* C6, C7: the polygons draw mode creates                                  *)
(***************************************************************************)
\* the features draw mode has created: in the store, or held by a Create action
DrawnFeatures ==
    {features[i] : i \in 1..Len(features)}
    \cup {undoStack[i].feature : i \in {j \in 1..Len(undoStack) : undoStack[j].type = "create"}}
    \cup {redoStack[i].feature : i \in {j \in 1..Len(redoStack) : redoStack[j].type = "create"}}
    \cup {events[i].feature : i \in {j \in 1..Len(events) : events[j].type = "create"}}

\* C6: every polygon created in draw mode has a ring for which the full ring
\* self-intersection test is false.
C6_DrawnRingsSimple ==
    \A f \in DrawnFeatures : ~hasRingSelfIntersection(f.ring)

\* a polygon of four vertices was created: the fourth vertex and the closing passed the checks
C6_Witness ==
    /\ Len(features) > 0
    /\ Len(features[1].ring) = 5
    /\ Len(events) = 1
    /\ events[1].type = "create"

\* C7: every feature created by draw mode has a ring of at least 4 positions whose
\* first and last positions are equal.
C7_DrawnRingsClosed ==
    \A f \in DrawnFeatures : Len(f.ring) >= 4 /\ f.ring[1] = f.ring[Len(f.ring)]

\* a triangle closed by a double click or by a click on its first vertex
C7_Witness ==
    /\ Len(features) > 0
    /\ Len(features[1].ring) = 4
    /\ features[1].ring[1] = features[1].ring[4]
    /\ undoStack # <<>>
    /\ undoStack[Len(undoStack)].type = "create"

(***************************************************************************)
(* C4, C5, C8, C9, C10: select-mode gestures                               *)
(***************************************************************************)
\* the feature the gesture took hold of, as the store holds it now
GestureFeature == getById(features, gesture.id)

\* C4: a drag gesture adds exactly one Update action and emits exactly one update
\* event if the feature at pointer-up differs from the drag-start snapshot, and
\* adds no history entry, emits no update event and leaves the redo stack
\* untouched if it does not differ.
C4_UpdateOnlyIfChanged ==
    gesture.kind \in {"vertexReleased", "midpointReleased"} =>
        IF GestureFeature # gesture.before
        THEN /\ undoStack = push(gesture.undo,
                                 UpdateAction(gesture.id, gesture.before, GestureFeature))
             /\ events = <<UpdateEvent(GestureFeature, gesture.before)>>
        ELSE /\ undoStack = gesture.undo
             /\ redoStack = gesture.redo
             /\ events = <<>>

\* C5: at every point of a drag the stored ring of the dragged feature has no
\* self-intersection, a self-intersecting candidate being discarded.
C5_DragKeepsRingSimple ==
    gesture.kind \in {"vertex", "midpoint", "vertexReleased", "midpointReleased"} =>
        (~hasRingSelfIntersection(gesture.before.ring)
            => ~hasRingSelfIntersection(GestureFeature.ring))

\* the press is on a vertex of the selected feature, which has 3 unique vertices
OnTriangleVertex(lngLat) ==
    /\ currentModeName = "select"
    /\ PressTarget(lngLat) = "vertex"
    /\ Len(getVertices(getById(features, getFirstSelectedId))) = 3

C9_MidpointDragOneUpdate ==
    /\ gesture.kind = "midpoint" =>
          /\ Len(GestureFeature.ring) = Len(gesture.before.ring) + 1
          /\ undoStack = gesture.undo
    /\ gesture.kind = "midpointReleased" =>
          /\ Len(GestureFeature.ring) = Len(gesture.before.ring) + 1
          /\ undoStack = push(gesture.undo,
                              UpdateAction(gesture.id, gesture.before, GestureFeature))
          /\ undo(undoStack, redoStack, features).ok
          /\ undo(undoStack, redoStack, features).store = gesture.store

\* a midpoint was pressed, dragged and released
C9_Witness ==
    /\ gesture.kind = "midpointReleased"
    /\ gesture.moves = 1
    /\ Len(gesture.before.ring) = 4
    /\ Len(undoStack) = 1

\* the press is inside the body of the selected polygon, away from its handles
InSelectedBody(lngLat) ==
    /\ currentModeName = "select"
    /\ PressTarget(lngLat) = "none"
    /\ getById(features, getFirstSelectedId) # NoFeature
    /\ booleanPointInPolygon(lngLat, getById(features, getFirstSelectedId).ring)

\* C10: a pointer-down inside the selected polygon's body, away from every vertex
\* and midpoint handle, keeps the feature selected and starts a whole-polygon drag.
C10_BodyPressStartsPolygonDrag ==
    [][\A lngLat \in SelectPts :
          (InSelectedBody(lngLat) /\ PointerDown(lngLat))
              => (selectedIds' = selectedIds /\ dragging')]_vars

C12_DoubleClickOneEntry ==
    (/\ gesture.kind = "click"
     /\ gesture.stage = Len(MouseEvents)
     /\ gesture.target = "vertex"
     /\ Len(getVertices(gesture.before)) > SELECT_MIN_VERTICES) =>
        /\ Len(GestureFeature.ring) = Len(gesture.before.ring) - 1
        /\ undoStack = push(gesture.undo,
                            UpdateAction(gesture.id, gesture.before, GestureFeature))
        /\ undo(undoStack, redoStack, features).store = gesture.store

(***************************************************************************)
(* Mode transitions                                                        *)
(***************************************************************************)
\* the calls on the modes and on the mode-change callback in a log of events
LifecycleCalls(log) ==
    SelectSeq(log, LAMBDA e : e.type \in {"deactivate", "activate", "onModeChange"})

\* C13: setMode(target) with target equal to the current mode calls no deactivate,
\* no activate and no mode-change callback; with a different target it calls
\* deactivate on the previous mode, then activate on the target, then the callback
\* with (target, previous), each exactly once and in that order.
C13_SetModeCallOrder ==
    [][\A name \in ModeNames :
          SetMode(name) =>
              IF name = currentModeName
              THEN LifecycleCalls(events') = <<>> /\ currentModeName' = currentModeName
              ELSE /\ LifecycleCalls(events') =
                        <<ModeCall("deactivate", currentModeName, ""),
                          ModeCall("activate", name, ""),
                          ModeCall("onModeChange", name, currentModeName)>>
                   /\ currentModeName' = name]_vars

\* select mode was left for draw mode with a feature selected
C13_Witness ==
    /\ currentModeName = "draw"
    /\ events = <<ModeCall("deactivate", "select", ""),
                  SelectionChangeEvent(<<>>),
                  ModeCall("activate", "draw", ""),
                  ModeCall("onModeChange", "draw", "select"),
                  ModeChangeEvent("draw", "select")>>

C15_SwitchClearsTransientState ==
    [][/\ ((\E name \in ModeNames : name # currentModeName /\ SetMode(name))
              \/ (~destroyed /\ Destroy))
          => /\ vertices' = <<>>
             /\ ~dragging'
             /\ dragVertexIndex' = -1
             /\ dragStartFeature' = NoFeature
             /\ selectedIds' = <<>>
       /\ currentModeName' # "select" => selectedIds' = <<>>]_vars

\* a drag that had begun was cut off by leaving select mode
C15_Witness ==
    /\ pushCount = 1
    /\ undoStack = <<>>
    /\ currentModeName = "draw"
    /\ ~dragging
    /\ selectedIds = <<>>
    /\ Len(events) > 0
    /\ events[1] = ModeCall("deactivate", "select", "")

(***************************************************************************)
(* Selection                                                               *)
(***************************************************************************)
\* C16: after every public operation every id that getSelectedFeatureIds()
\* reports is the id of a feature in the store.
C16_SelectedIdsInStore ==
    \A i \in 1..Len(selectedIds) : has(features, selectedIds[i])

\* the press takes hold of no handle of the selected feature and is outside its body
MissesSelected(lngLat) ==
    /\ currentModeName = "select"
    /\ PressTarget(lngLat) = "none"
    /\ ~InSelectedBody(lngLat)

\* C17: at most one feature id is selected at any time; when the press hits no
\* handle and not the body of the selected feature, a click on an unselected
\* feature makes it the only selected id and a click on empty space leaves the
\* selection empty.
C17_SingleSelection ==
    [][/\ Len(selectedIds') <= 1
       /\ \A lngLat \in PickPts :
             (MissesSelected(lngLat) /\ PointerDown(lngLat)) =>
                 IF hitFeature(features, lngLat) # NoFeature
                 THEN selectedIds' = <<hitFeature(features, lngLat).id>>
                 ELSE selectedIds' = <<>>]_vars

\* the first feature was selected and edited, and a click has since made the
\* second feature the selected one
C17_Witness ==
    /\ selectedIds = <<2>>
    /\ events = <<SelectionChangeEvent(<<2>>)>>
    /\ Len(getById(features, 1).ring) > Len(TriRing)

(***************************************************************************)
(* Deleting the selected feature                                           *)
(***************************************************************************)
\* a long-press in select mode that hits no vertex of the selected feature
MissesVertices(lngLat) ==
    /\ currentModeName = "select"
    /\ getById(features, getFirstSelectedId) # NoFeature
    /\ PressTarget(lngLat) \in {"midpoint", "none"}

\* the delete events in a log of events
DeleteEvents(log) == SelectSeq(log, LAMBDA e : e.type = "delete")

C19_LongPressOffVertexKeepsFeature ==
    [][\A lngLat \in SelectPts :
          (MissesVertices(lngLat) /\ LongPress(lngLat)) =>
              /\ features' = features
              /\ undoStack' = undoStack
              /\ DeleteEvents(events') = <<>>]_vars

\* C20: with a feature selected, Delete or Backspace removes that feature and no
\* other, pushes exactly one Delete action, emits one delete event and empties
\* the selection, and one undo restores the feature with its id and geometry;
\* with nothing selected the key changes nothing.
C20_DeleteKey ==
    [][\A key \in {"Delete", "Backspace"} :
          (currentModeName = "select" /\ KeyDown(key)) =>
              LET feature == getById(features, getFirstSelectedId)
                  undone == undo(undoStack', redoStack', features')
              IN  IF selectedIds = <<>>
                  THEN /\ UNCHANGED <<features, undoStack, redoStack, selectedIds>>
                       /\ events' = <<>>
                  ELSE feature # NoFeature =>
                          /\ ~has(features', feature.id)
                          /\ features' = remove(features, feature.id)
                          /\ undoStack' = push(undoStack, DeleteAction(feature))
                          /\ DeleteEvents(events') = <<DeleteEvent(feature)>>
                          /\ selectedIds' = <<>>
                          /\ undone.ok
                          /\ getById(undone.store, feature.id) = feature
                          /\ Len(undone.store) = Len(features)]_vars

\* the Delete key has deleted the selected feature
C20_Witness ==
    /\ gesture.kind = "key"
    /\ gesture.key = "Delete"
    /\ ~has(features, gesture.id)
    /\ selectedIds = <<>>
    /\ undoStack # <<>>
    /\ undoStack[Len(undoStack)] = DeleteAction(gesture.before)

(***************************************************************************)
(* Draw mode: finalization, cancellation, long-press                       *)
(***************************************************************************)
\* the operation created a feature: the store grew by one
FeatureCreated == Len(features') = Len(features) + 1

\* C21: a draw-mode double-click arriving with n committed vertices discards
\* exactly one trailing vertex; it creates a feature only if the remaining n-1
\* vertices number at least 3 and closing them does not self-intersect, the ring
\* created being those n-1 vertices plus the closing copy, and with n-1 < 3 no
\* feature is created.
C21_DoubleClickDropsOneVertex ==
    [][\A lngLat \in DrawPts :
          (currentModeName = "draw" /\ DoubleClick(lngLat)) =>
              LET n == Len(vertices)
                  rest == SubSeq(vertices, 1, n - 1)
              IN  /\ FeatureCreated =>
                        /\ Len(rest) >= MIN_VERTICES
                        /\ ~wouldClosingCauseIntersection(rest)
                        /\ features'[Len(features')].ring = CloseRing(rest)
                  /\ n - 1 < MIN_VERTICES => features' = features]_vars

\* the ids the store and the two stacks hold
IdsInUse ==
    {features[i].id : i \in 1..Len(features)}
    \cup {(IF undoStack[i].type = "update" THEN undoStack[i].id ELSE undoStack[i].feature.id) :
              i \in 1..Len(undoStack)}
    \cup {(IF redoStack[i].type = "update" THEN redoStack[i].id ELSE redoStack[i].feature.id) :
              i \in 1..Len(redoStack)}

\* C22: a successful draw finalization adds exactly one feature with a fresh id
\* and empty properties to the store, pushes exactly one Create action, emits
\* exactly one create event and empties the vertex list; a following undo removes
\* exactly that feature and a following redo restores it with the same id.
C22_FinalizeCreatesOneFeature ==
    [][\A lngLat \in DrawPts :
          (currentModeName = "draw" /\ FeatureCreated
              /\ (PointerDown(lngLat) \/ DoubleClick(lngLat))) =>
              LET created == features'[Len(features')]
                  undone == undo(undoStack', redoStack', features')
                  redone == redo(undone.undoStack, undone.redoStack, undone.store)
              IN  /\ features' = Append(features, created)
                  /\ created.id \notin IdsInUse
                  /\ created.properties = EmptyProperties
                  /\ undoStack' = push(undoStack, CreateAction(created))
                  /\ redoStack' = <<>>
                  /\ events' = <<CreateEvent(created)>>
                  /\ vertices' = <<>>
                  /\ undone.ok
                  /\ undone.store = features
                  /\ redone.ok
                  /\ redone.store = features']_vars

\* a polygon was drawn next to an imported feature
C22_Witness ==
    /\ currentModeName = "draw"
    /\ Len(features) = 2
    /\ features[1].id = ImportedId
    /\ vertices = <<>>
    /\ events = <<CreateEvent(features[2])>>
    /\ undoStack = <<CreateAction(features[2])>>

\* the step is a successful finalization: it emitted a create event
Finalized == Len(events') > 0 /\ events'[1].type = "create"

\* an input event delivered to the current mode
InputEvent ==
    \/ \E lngLat \in DrawPts : PointerDown(lngLat) \/ PointerMove(lngLat)
    \/ PointerUp
    \/ \E lngLat \in DrawPts : DoubleClick(lngLat) \/ LongPress(lngLat)
    \/ \E key \in Keys : KeyDown(key)

\* C23: while a polygon is in progress, no draw-mode event other than a
\* successful finalization changes the store or the history; Escape empties the
\* vertex list, creates no feature, adds no history entry and leaves the mode
\* as draw.
C23_DrawEventsFrame ==
    [][/\ (currentModeName = "draw" /\ Len(vertices) > 0 /\ InputEvent /\ ~Finalized)
              => UNCHANGED <<features, undoStack, redoStack>>
       /\ (currentModeName = "draw" /\ KeyDown("Escape"))
              => /\ vertices' = <<>>
                 /\ UNCHANGED <<features, undoStack, redoStack>>
                 /\ currentModeName' = "draw"]_vars

\* Escape abandoned a polygon of three vertices
C23_Witness ==
    /\ currentModeName = "draw"
    /\ gesture.kind = "key"
    /\ gesture.key = "Escape"
    /\ Len(gesture.vertices) = MIN_VERTICES
    /\ vertices = <<>>
    /\ features = <<>>
    /\ undoStack = <<>>

\* the modechange events in a log of events
ModeChangeEvents(log) == SelectSeq(log, LAMBDA e : e.type = "modechange")

\* C24: when a polygon is created in draw mode the active mode becomes idle and a
\* modechange event is emitted for the transition from draw to idle.
C24_CreationReturnsToIdle ==
    [][\A lngLat \in DrawPts :
          (currentModeName = "draw" /\ Finalized
              /\ (PointerDown(lngLat) \/ DoubleClick(lngLat))) =>
              /\ currentModeName' = "idle"
              /\ ModeChangeEvents(events') = <<ModeChangeEvent("idle", "draw")>>]_vars

\* C25: after any sequence of setMode calls and input events, drag-panning of the
\* host map is disabled exactly when the mode is draw or a select-mode drag is in
\* progress.
C25_DragPanDisabledOnlyWhileDrawingOrDragging ==
    ~destroyed =>
        (~dragPan <=> (currentModeName = "draw" \/ (currentModeName = "select" /\ dragging)))

\* C26: in draw mode a touch long-press undoes the last vertex: after the
\* gesture the committed vertex list is one shorter than it was before the touch
\* began, or still empty if it was empty.
C26_TouchLongPressUndoesVertex ==
    (/\ gesture.kind \in {"touch", "touchEnded"}
     /\ gesture.fired
     /\ gesture.mode = "draw"
     /\ currentModeName = "draw") =>
        Len(vertices) = MaxOf(Len(gesture.vertices) - 1, 0)

(***************************************************************************)
(* The programmatic interface                                              *)
(***************************************************************************)
\* C27: a bulk import (setFeatures or addFeatures) in which any element is
\* invalid throws a LibreDrawError and admits nothing: the store, the history
\* stacks and the selection are as they were before the call, whatever the
\* position of the invalid element.
C27_ImportAllOrNothing ==
    [][/\ \A fs \in ImportCollections :
             (~validateGeoJSON(fs) /\ SetFeatures(fs)) =>
                 /\ gesture'.kind = "importThrew"
                 /\ UNCHANGED <<features, undoStack, redoStack, selectedIds>>
       /\ \A fs \in ImportBatches :
             (~validateGeoJSON(fs) /\ AddFeatures(fs)) =>
                 /\ gesture'.kind = "importThrew"
                 /\ UNCHANGED <<features, undoStack, redoStack, selectedIds>>]_vars

\* the actions the two stacks hold
StackActions ==
    {undoStack[i] : i \in 1..Len(undoStack)} \cup {redoStack[i] : i \in 1..Len(redoStack)}

\* C28: a successful setFeatures replaces the whole store content and empties
\* both history stacks, so that undo() and redo() right after it return false;
\* and no later undo or redo acts on an action recorded before the import: undo
\* and redo change the store only by the action on top of a stack, and bring no
\* action into the stacks.
C28_SetFeaturesResetsHistory ==
    [][/\ \A fs \in ImportCollections :
             (validateGeoJSON(fs) /\ SetFeatures(fs)) =>
                 /\ features' = fs
                 /\ undoStack' = <<>>
                 /\ redoStack' = <<>>
                 /\ ~undo(undoStack', redoStack', features').ok
                 /\ undo(undoStack', redoStack', features').store = features'
                 /\ ~redo(undoStack', redoStack', features').ok
                 /\ redo(undoStack', redoStack', features').store = features'
       /\ Undo =>
             /\ StackActions' \subseteq StackActions
             /\ features' = IF undoStack = <<>> THEN features
                            ELSE revert(undoStack[Len(undoStack)], features)
       /\ Redo =>
             /\ StackActions' \subseteq StackActions
             /\ features' = IF redoStack = <<>> THEN features
                            ELSE apply(redoStack[Len(redoStack)], features)]_vars

\* an import has replaced a store whose history held a deletion
C28_Witness ==
    /\ uuidCount = 1
    /\ pushCount > 0
    /\ undoStack = <<>>
    /\ redoStack = <<>>
    /\ Len(features) = 1
    /\ features[1].id = uuidCount
    /\ gesture = NoGesture

\* C29: selectFeature(id) with an id that is not in the store throws and leaves
\* the mode and the selection unchanged; with an existing id, called from any
\* mode, it ends with the mode equal to select and the selected ids equal to
\* <<id>>.
C29_SelectFeature ==
    [][\A id \in FeatureIds :
          SelectFeature(id) =>
              IF ~has(features, id)
              THEN UNCHANGED <<currentModeName, selectIsActive, selectedIds>>
              ELSE /\ currentModeName' = "select"
                   /\ selectIsActive'
                   /\ selectedIds' = <<id>>]_vars

\* selectFeature was called in idle mode on a feature of the store
C29_Witness ==
    /\ currentModeName = "select"
    /\ selectedIds # <<>>
    /\ has(features, selectedIds[1])
    /\ events = Append(setModeTrace("select", "idle", <<>>),
                       SelectionChangeEvent(selectedIds))

\* C30: destroy() called in any state, handlers that call LibreDraw methods
\* included, completes its teardown: it leaves the mode idle, the selection
\* empty, the store and the history empty and no listener registered; after it
\* every other public method throws and a second destroy() is a no-op, so
\* nothing changes any more.
C30_DestroyCompletes ==
    [][/\ (~destroyed /\ Destroy) =>
             /\ destroyed'
             /\ currentModeName' = "idle"
             /\ selectedIds' = <<>>
             /\ features' = <<>>
             /\ undoStack' = <<>>
             /\ redoStack' = <<>>
             /\ listeners' = {}
       /\ destroyed => UNCHANGED vars]_vars

(***************************************************************************)
(* C31                                                                     *)
(***************************************************************************)
SelectionChangeEvents(log) == SelectSeq(log, LAMBDA e : e.type = "selectionchange")
IdSet(ids) == {ids[i] : i \in 1..Len(ids)}

\* C31: a selectionchange event is emitted exactly when the set of selected ids
\* changes: an operation that changes the set emits one event carrying the new
\* id list, and an operation that leaves the set as it was emits none.
C31_SelectionChangeOnlyOnChange ==
    [][IF IdSet(selectedIds') # IdSet(selectedIds)
       THEN SelectionChangeEvents(events') = <<SelectionChangeEvent(selectedIds')>>
       ELSE SelectionChangeEvents(events') = <<>>]_vars

(***************************************************************************)
(* C32                                                                     *)
(***************************************************************************)
\* C32: for every action (Create, Update, Delete) and every store state,
\* applying the action twice in a row leaves the store as applying it once did.
C32_ApplyIdempotent ==
    law.phase = "appliedTwice" => features = law.once

\* a Create applied twice to a store that did not hold its feature
C32_Witness ==
    /\ law.phase = "appliedTwice"
    /\ law.action.type = "create"
    /\ ~has(law.start, law.action.feature.id)
    /\ Len(law.start) = 1
    /\ Len(features) = 2

(***************************************************************************)
(* C33                                                                     *)
(***************************************************************************)
\* validateRing's two conditions on the shape of a ring
ClosedRing(ring) == Len(ring) >= 4 /\ ring[1] = ring[Len(ring)]

\* C33: after any sequence of operations (drawing, vertex and midpoint drags,
\* vertex deletions, imports, and undo/redo at any point, also during a drag)
\* every feature in the store has a ring of at least 4 positions whose first and
\* last positions are equal.
C33_StoredRingsClosed ==
    \A i \in 1..Len(features) : ClosedRing(features[i].ring)

\* a drag index taken from a longer ring was written past the end of the ring in
\* the store, which left a hole before the moved position
C33_Witness ==
    /\ dragging
    /\ Len(features) = 1
    /\ ~Readable(features[1].ring)
    /\ features[1].ring[Len(features[1].ring)] \in MovePts
    /\ ClosedRing(features[1].ring)

(***************************************************************************)
(* C34                                                                     *)
(***************************************************************************)
\* an action of the stack whose before-state is this feature
CoveredBy(stack, before) ==
    \E i \in 1..Len(stack) :
        \/ stack[i].type = "update" /\ stack[i].oldFeature = before
        \/ stack[i].type = "delete" /\ stack[i].feature = before

\* C34: every geometry change made by a select-mode gesture is undoable: when a
\* drag session ends (by a release, a mode switch or a key press), the stored
\* geometry of the dragged feature equals what it was when the gesture began,
\* or an action on the undo stack has the pre-gesture geometry as its
\* before-state.
C34_GestureChangesUndoable ==
    [][(dragging /\ ~dragging' /\ dragStartFeature # NoFeature
            /\ has(features', dragStartFeature.id))
          => \/ getById(features', dragStartFeature.id) = dragStartFeature
             \/ CoveredBy(undoStack', dragStartFeature)]_vars

(***************************************************************************)
(* C35                                                                     *)
(***************************************************************************)
\* C35: for every touch sequence routed by TouchInput to SelectMode (tap, drag,
\* long-press, or a second finger turning the gesture into a pinch), once all
\* fingers are lifted no drag session remains in SelectMode and host
\* drag-panning is enabled.
C35_TouchLeavesNoDrag ==
    [][(currentModeName = "select" /\ (TouchEnd \/ PinchEnd))
          => (~dragging' /\ dragPan')]_vars

(***************************************************************************)
(* C36                                                                     *)
(***************************************************************************)
\* a pointer-down was dispatched to draw mode and nothing has happened since
JustPressed == gesture.kind = "touch" /\ gesture.mode = "draw" /\ ~gesture.fired

\* the three outcomes of the press, from the vertex list before it
PressFinalized ==
    /\ vertices = <<>>
    /\ features # <<>>
    /\ features[Len(features)].ring = CloseRing(gesture.vertices)
PressIgnored == vertices = gesture.vertices /\ features = <<>>
PressAppended == vertices = Append(gesture.vertices, gesture.at) /\ features = <<>>

\* the press aims at the first vertex
ClosingPress ==
    /\ Len(gesture.vertices) >= MIN_VERTICES
    /\ NearFirstVertex(gesture.vertices, getScreenPoint(gesture.at))

\* C36 as stated: each draw-mode pointer-down has exactly one of three outcomes,
\* decided in this order: finalize, if and only if at least 3 vertices exist, the
\* click is within 10px of the first vertex and closing does not self-intersect;
\* otherwise ignore the click, if and only if appending it would make the new
\* trailing edge self-intersect; otherwise append the click as a new vertex.
C36_PressOutcomeAsStated ==
    JustPressed =>
        IF ClosingPress /\ ~wouldClosingCauseIntersection(gesture.vertices)
        THEN PressFinalized
        ELSE IF wouldNewVertexCauseIntersection(gesture.vertices, gesture.at)
        THEN PressIgnored
        ELSE PressAppended

\* C36 amended: finalize, if and only if at least 3 vertices exist, the click is
\* within 10px of the first vertex and closing does not self-intersect; ignore the
\* click, if and only if either at least 3 vertices exist, the click is within
\* 10px of the first vertex and closing self-intersects, or the click is not such
\* a closing click and appending it would make the new trailing edge
\* self-intersect; otherwise append the click as a new vertex.
C36_PressOutcome ==
    JustPressed =>
        IF ClosingPress
        THEN IF wouldClosingCauseIntersection(gesture.vertices)
             THEN PressIgnored
             ELSE PressFinalized
        ELSE IF wouldNewVertexCauseIntersection(gesture.vertices, gesture.at)
        THEN PressIgnored
        ELSE PressAppended

\* a closing click was ignored although appending it would not self-intersect
C36_Witness ==
    /\ JustPressed
    /\ ClosingPress
    /\ wouldClosingCauseIntersection(gesture.vertices)
    /\ ~wouldNewVertexCauseIntersection(gesture.vertices, gesture.at)
    /\ PressIgnored

(***************************************************************************)
(* C37                                                                     *)
(***************************************************************************)
\* C37: after any sequence of push, undo, redo and clear on a HistoryManager with
\* capacity HistoryLimit, the undo stack holds at most HistoryLimit actions and
\* the undo and redo stacks together hold at most HistoryLimit actions.
C37_StacksWithinCapacity ==
    /\ Len(undoStack) <= HistoryLimit
    /\ Len(undoStack) + Len(redoStack) <= HistoryLimit

\* more pushes than the capacity, then an undo: the two stacks are full together
C37_Witness ==
    /\ pushCount > HistoryLimit
    /\ undoStack # <<>>
    /\ redoStack # <<>>
    /\ Len(undoStack) + Len(redoStack) = HistoryLimit

(***************************************************************************)
(* C38                                                                     *)
(***************************************************************************)
\* C38: deleting a feature and then undoing the deletion restores the store's
\* feature order (the getAll order, which decides which of several overlapping
\* polygons a click selects) to what it was before the deletion.
C38_DeleteUndoRestoresOrder ==
    (/\ law.phase = "applyReverted"
     /\ law.action.type = "delete"
     /\ Applicable(law.action, law.start))
        => getAll(features) = getAll(law.start)

(***************************************************************************)
(* C39                                                                     *)
(***************************************************************************)
\* C39: render requests are coalesced and never lost: after any burst of
\* operations, once the pending animation frame has run, the rendered feature
\* collection equals the current store content with the selected flag set on
\* exactly the currently selected ids, also after a mode switch that clears the
\* selection.
C39_RenderedMatchesStore ==
    ~renderManager.pendingRender =>
        renderManager.rendered = Rendering(getAll(features), selectedIds)

(***************************************************************************)
(* C40                                                                     *)
(***************************************************************************)
\* C40: the modechange events a listener is handed form a chain: each event's
\* previousMode is the mode of the modechange event handed over before it (the
\* mode before the call for the first one, idle at the start), and its mode is
\* what getMode() returns when it is delivered, also when setMode is called from
\* inside a selectionchange or modechange listener.
C40_ModeChangeChain ==
    [][LET log == events'
           delivered == {i \in 1..Len(log) : log[i].type = "modechange"}
           before(i) == {j \in delivered : j < i}
           last(i) == CHOOSE j \in before(i) : \A k \in before(i) : k <= j
       IN  \A i \in delivered :
               /\ log[i].previousMode =
                      IF before(i) = {} THEN currentModeName ELSE log[last(i)].mode
               /\ (i < Len(log) /\ log[i + 1].type = "getMode")
                      => log[i + 1].mode = log[i].mode]_vars

====
